---- MODULE Spec2Model ----
(***************************************************************************)
(* A model of the packet debug server (src/src/packet_debug_server.py),    *)
(* its packet parser (src/src/minecraft_protocol.py) and the block manager *)
(* (src/PythonServer/block_manager.py).                                    *)
(*                                                                         *)
(* Threads: one session handler per connection (handle_client), one chunk  *)
(* worker per session (ChunkLoader._worker), one keep-alive thread per     *)
(* session (keep_alive_worker) and one entity update thread per World      *)
(* object (World._entity_update_worker).                                   *)
(*                                                                         *)
(* Floating point coordinates are represented in fixed point: one block is *)
(* Unit units.                                                             *)
(***************************************************************************)
EXTENDS Integers, Sequences, FiniteSets, TLC

VARIABLES
    \* ---- per connection (locals of handle_client) ----
    connection_state,   \* ConnectionState
    known_packs_sent,   \* BOOLEAN
    player_uuid,        \* "none" | "client" | "random"
    buffer,             \* de-framed inbound packets not yet handled
    recv_count,         \* number of packets the client has sent so far
    spc,                \* position of the session thread
    sock,               \* "open" | "broken" (peer reset) | "closed" (client_socket.close())
    wire,               \* what has been written to the socket, fragment by fragment
    world,              \* handle_client's local `world`: 0 (None) or a World object id
    has_player,         \* handle_client's local `player` is not None
    keep_alive_thread,  \* handle_client's local `keep_alive_thread` is not None
    stop_event,         \* keep_alive_stop_event (shared with the ChunkLoader)
    \* ---- Player object ----
    player,
    \* ---- ChunkLoader object ----
    has_loader,         \* chunk_loader has been created and started
    chunk_queue,        \* queue.Queue of messages
    socket_lock,        \* holder of ChunkLoader.socket_lock, or "free"
    wpc,                \* position of the chunk worker
    wjob,               \* the load message the worker is working on
    \* ---- keep-alive thread ----
    kpc,
    ka_sent,
    \* ---- World objects (indexed by object id) ----
    num_worlds,         \* World objects constructed so far
    block_data,         \* BlockManager.block_data
    updated_blocks,     \* BlockManager.updated_blocks
    item_entities,      \* World.item_entities
    next_entity_id,     \* World.next_entity_id
    entity_collision_cache,
    tpc,                \* position of the entity update thread
    tlocal,             \* locals of update_item_entities
    \* ---- history ----
    gravity_watch,      \* per World: frozen entities whose checked blocks were set
    \* ---- the inspector's gate and the protocol codec ----
    entity_update_pause_event,  \* per World: the Event is set (updates run)
    codec,              \* the ProtocolWriter / ProtocolReader call in hand
    \* ---- the bytes of one connection ----
    net                 \* what the client wrote, what recv returned, handle_client's
                        \* local `buffer` and the packets its parse loop took out

vars == << connection_state, known_packs_sent, player_uuid, buffer, recv_count, spc,
           sock, wire, world, has_player, keep_alive_thread, stop_event, player,
           has_loader, chunk_queue, socket_lock, wpc, wjob, kpc, ka_sent,
           num_worlds, block_data, updated_blocks, item_entities, next_entity_id,
           entity_collision_cache, tpc, tlocal, gravity_watch,
           entity_update_pause_event, codec, net >>

connVars  == << connection_state, known_packs_sent, player_uuid >>
loaderVars == << has_loader, chunk_queue, socket_lock, wpc, wjob >>
kaVars    == << kpc, ka_sent, keep_alive_thread >>
worldVars == << num_worlds, block_data, updated_blocks, item_entities, next_entity_id,
                entity_collision_cache >>
tickVars  == << tpc, tlocal, gravity_watch >>

-----------------------------------------------------------------------------
(* Bounds of the model *)

\* Packets one client sends on a connection.
MaxRecv == 5
\* Packets that may wait in the read buffer.
MaxBuf == 1
\* Keep Alive packets the keep-alive thread sends.
MaxKeepAlive == 1
\* The largest loading radius the model follows.
MaxRadius == 0

Sessions == {1, 2}
WorldIds == {1, 2}

\* The threads that run update_item_entities on World w: its entity update
\* thread, w, and the thread of the inspector that calls step_entity_tick.
TickStepper(w) == -w

WorldOf(t) == IF t < 0 THEN -t ELSE t

TickThreadIds == WorldIds \cup { TickStepper(w) : w \in WorldIds }

-----------------------------------------------------------------------------
(* ConnectionState and the dispatch table *)

HANDSHAKING == "HANDSHAKING"
STATUS == "STATUS"
LOGIN == "LOGIN"
CONFIGURATION == "CONFIGURATION"
PLAY == "PLAY"

ConnectionState == {HANDSHAKING, STATUS, LOGIN, CONFIGURATION, PLAY}

\* Rank of a state along Handshake -> Status | Login -> Configuration -> Play.
StateRank(st) ==
    CASE st = HANDSHAKING -> 0
      [] st = STATUS -> 1
      [] st = LOGIN -> 1
      [] st = CONFIGURATION -> 2
      [] st = PLAY -> 3

\* Inbound packet ids.
ID_HANDSHAKE == 0
ID_ACK == 3
ID_KNOWN_PACKS == 7
ID_CLICK_CONTAINER == 17
ID_KEEP_ALIVE == 27
ID_SET_POSITION == 29
ID_SET_POSITION_ROTATION == 30
ID_SET_ROTATION == 31
ID_PLAYER_ACTION == 40
ID_SET_HELD_ITEM == 52
ID_USE_ITEM_ON == 63
\* An id no state knows (0x05).
ID_UNKNOWN == 5

\* parse_packet takes Known Packs (id 7) in Login too.
ParserFor_AnyState(st, id) ==
    CASE st = HANDSHAKING /\ id = ID_HANDSHAKE -> "handshake"
      [] st = LOGIN /\ id = 0 -> "login_start"
      [] st = LOGIN /\ id = ID_ACK -> "empty"
      [] st = LOGIN /\ id = ID_KNOWN_PACKS -> "known_packs"
      [] st = CONFIGURATION /\ id = 0 -> "client_information"
      [] st = CONFIGURATION /\ id = ID_ACK -> "empty"
      [] st = CONFIGURATION /\ id = ID_KNOWN_PACKS -> "known_packs"
      [] st = PLAY /\ id = ID_SET_POSITION -> "set_player_position"
      [] st = PLAY /\ id = ID_SET_POSITION_ROTATION -> "set_player_position_and_rotation"
      [] st = PLAY /\ id = ID_SET_ROTATION -> "set_player_rotation"
      [] st = PLAY /\ id = ID_KEEP_ALIVE -> "keep_alive"
      [] st = PLAY /\ id = ID_PLAYER_ACTION -> "player_action"
      [] st = PLAY /\ id = ID_CLICK_CONTAINER -> "click_container"
      [] st = PLAY /\ id = ID_USE_ITEM_ON -> "use_item_on"
      [] st = PLAY /\ id = ID_SET_HELD_ITEM -> "set_held_item"
      [] OTHER -> "unknown"

\* What PacketParser.parse_packet answers for (state, id): the parser of the
\* packet body, "empty" when it returns (id, None) for a known empty packet
\* and "unknown" when it falls through to the last line.
ParserFor(st, id) ==
    CASE st = HANDSHAKING /\ id = ID_HANDSHAKE -> "handshake"
      [] st = LOGIN /\ id = 0 -> "login_start"
      [] st = LOGIN /\ id = ID_ACK -> "empty"
      [] st = CONFIGURATION /\ id = 0 -> "client_information"
      [] st = CONFIGURATION /\ id = ID_ACK -> "empty"
      [] st = CONFIGURATION /\ id = ID_KNOWN_PACKS -> "known_packs"
      [] st = PLAY /\ id = ID_SET_POSITION -> "set_player_position"
      [] st = PLAY /\ id = ID_SET_POSITION_ROTATION -> "set_player_position_and_rotation"
      [] st = PLAY /\ id = ID_SET_ROTATION -> "set_player_rotation"
      [] st = PLAY /\ id = ID_KEEP_ALIVE -> "keep_alive"
      [] st = PLAY /\ id = ID_PLAYER_ACTION -> "player_action"
      [] st = PLAY /\ id = ID_CLICK_CONTAINER -> "click_container"
      [] st = PLAY /\ id = ID_USE_ITEM_ON -> "use_item_on"
      [] st = PLAY /\ id = ID_SET_HELD_ITEM -> "set_held_item"
      [] OTHER -> "unknown"

\* The (state, id) pairs of the dispatch table.
InDispatchTable(st, id) == ParserFor(st, id) # "unknown"

\* An inbound packet: its id, one integer field of its body (the intent of a
\* Handshake, the status of a Player Action, ...) and whether the body parses
\* with the parser its (state, id) selects (a short or malformed body makes
\* the ProtocolReader raise).
Packet(id, arg, ok) == [id |-> id, arg |-> arg, ok |-> ok]

-----------------------------------------------------------------------------
(* Fixed point *)

\* Units per block: a coordinate c stands for the float c / Unit.
Unit == 100

\* Python's int(x) on a float: truncation towards zero.
PyInt(c) == IF c >= 0 THEN c \div Unit ELSE -((-c) \div Unit)

\* math.floor(x).
Floor(c) == c \div Unit

Abs(n) == IF n < 0 THEN -n ELSE n

Min(a, b) == IF a <= b THEN a ELSE b
Max(a, b) == IF a >= b THEN a ELSE b

-----------------------------------------------------------------------------
(* BlockManager (src/PythonServer/block_manager.py) *)

BLOCK_AIR == 0
BLOCK_STONE == 1
BLOCK_WATER == 86
BLOCK_WHITE_WOOL == 2093
BLOCK_YELLOW_WOOL == 2097
BLOCK_GRASS_BLOCK == 2098
BLOCK_DIRT == 2105

\* Sections of a chunk: range(24).
NumSections == 24

\* The height map the terrain generator answers for a column.  The noise
\* itself is an external library; the map is a fixed function of the column.
TerrainHeight(x, z) == 64 + ((x + z) % 2)

world_to_chunk_coords(x, z) == << x \div 16, z \div 16 >>

world_to_section_y(y) == (y + 64) \div 16

\* (chunk_x, chunk_z, section_y) of the section holding block b = <<x, y, z>>.
SectionKey(b) == << b[1] \div 16, b[3] \div 16, world_to_section_y(b[2]) >>

ChunkOf(b) == << b[1] \div 16, b[3] \div 16 >>

get_section_y_range(section_y) == << -64 + section_y * 16, -64 + section_y * 16 + 15 >>

\* _get_surface_block; the slope test of the noise is not modelled, a column
\* between sea level and the snow line gets grass.
get_surface_block(surface_height) ==
    IF surface_height >= 90 THEN BLOCK_WHITE_WOOL
    ELSE IF surface_height <= 64 THEN BLOCK_YELLOW_WOOL
    ELSE BLOCK_GRASS_BLOCK

\* Flat mode without the fill of the sections below the ground.
generate_initial_chunk_section_Hollow(mode, section_y, ground_y, b) ==
    LET rng == get_section_y_range(section_y)
    IN  IF mode = "flat" /\ rng[1] <= ground_y /\ ground_y <= rng[2]
        THEN (IF b[2] = ground_y - 1 THEN BLOCK_DIRT
              ELSE IF b[2] = ground_y THEN BLOCK_GRASS_BLOCK
              ELSE BLOCK_AIR)
        ELSE BLOCK_AIR

\* The block generate_initial_chunk_section puts at world block b of section
\* section_y, for the given mode: "terrain" (use_terrain with a generator),
\* "flat" (flat_world) or "none" (neither).
generate_initial_chunk_section(mode, section_y, ground_y, b) ==
    LET rng == get_section_y_range(section_y)
        h == TerrainHeight(b[1], b[3])
    IN  CASE mode = "terrain" ->
               IF b[2] > h THEN (IF b[2] < 64 THEN BLOCK_WATER ELSE BLOCK_AIR)
               ELSE IF b[2] = h THEN get_surface_block(h)
               ELSE IF b[2] >= h - 3 THEN BLOCK_DIRT
               ELSE BLOCK_STONE
          [] mode = "flat" /\ rng[1] <= ground_y /\ ground_y <= rng[2] ->
               IF b[2] = ground_y - 1 THEN BLOCK_DIRT
               ELSE IF b[2] = ground_y THEN BLOCK_GRASS_BLOCK
               ELSE BLOCK_AIR
          [] mode = "flat" /\ rng[1] < ground_y - 1 -> BLOCK_DIRT
          [] OTHER -> BLOCK_AIR

\* block_data is held as: `sections`, the resident section keys, each with the
\* mode and ground its initial content was generated with, and `written`, the
\* entries assigned in resident sections since they were generated.
EmptyBlockData == [sections |-> << >>, written |-> << >>]

InitialSection(mode, ground_y) == [mode |-> mode, ground_y |-> ground_y]

Resident(bd, key) == key \in DOMAIN bd.sections

\* BlockManager.get_block
get_block(bd, b) ==
    LET key == SectionKey(b)
    IN  IF ~Resident(bd, key) THEN BLOCK_AIR
        ELSE IF b \in DOMAIN bd.written THEN bd.written[b]
        ELSE generate_initial_chunk_section(bd.sections[key].mode, key[3],
                                            bd.sections[key].ground_y, b)

\* BlockManager.is_block_solid
is_block_solid(bd, b) == get_block(bd, b) # BLOCK_AIR

\* _world_to_local_coords and _calculate_block_index: the index of block b in
\* the list of its section.
calculate_block_index(b) ==
    LET local_x == b[1] % 16
        local_z == b[3] % 16
        local_y == b[2] - get_section_y_range(world_to_section_y(b[2]))[1]
    IN  local_y * 256 + local_z * 16 + local_x

\* Entries of a section's list.
SectionSize == 4096

\* The result of BlockManager.set_block: whether the index is in the list.
set_block_result(b) ==
    0 <= calculate_block_index(b) /\ calculate_block_index(b) < SectionSize

\* set_block stores the entry at the index next to the block's own.
set_block_data_Shifted(bd, b, id) ==
    LET key == SectionKey(b)
        secs == IF Resident(bd, key) THEN bd.sections
                ELSE (key :> InitialSection("flat", 64)) @@ bd.sections
    IN  [sections |-> secs, written |-> (<< b[1] + 16, b[2], b[3] >> :> id) @@ bd.written]

\* The block_data part of BlockManager.set_block: materialise the section
\* (flat, ground 64) when it is not resident, then assign the entry when its
\* index is in the list.
set_block_data(bd, b, id) ==
    LET key == SectionKey(b)
        secs == IF Resident(bd, key) THEN bd.sections
                ELSE (key :> InitialSection("flat", 64)) @@ bd.sections
    IN  [sections |-> secs,
         written |-> IF set_block_result(b) THEN (b :> id) @@ bd.written ELSE bd.written]

\* BlockManager.load_chunk: every section 0..23 of the chunk is generated and
\* stored, replacing what the key held.
load_chunk(bd, c, ground_y, mode) ==
    LET keys == { << c[1], c[2], sy >> : sy \in 0 .. NumSections - 1 }
        kept == { k \in DOMAIN bd.sections : k \notin keys }
        keptw == { b \in DOMAIN bd.written : SectionKey(b) \notin keys }
    IN  [sections |-> [k \in kept \cup keys |->
                          IF k \in keys THEN InitialSection(mode, ground_y)
                          ELSE bd.sections[k]],
         written |-> [b \in keptw |-> bd.written[b]]]

\* BlockManager.is_chunk_loaded
is_chunk_loaded(bd, c) ==
    \E sy \in 0 .. NumSections - 1 : << c[1], c[2], sy >> \in DOMAIN bd.sections

\* get_updated_blocks hands out the set itself.
get_updated_blocks_Live(ub) == [alias |-> TRUE, val |-> ub]

\* BlockManager.get_updated_blocks: a copy of the set.
get_updated_blocks(ub) == [alias |-> FALSE, val |-> ub]

\* The content of a set returned by get_updated_blocks, read when the live
\* set is `ub`.
SetValue(ref, ub) == IF ref.alias THEN ub ELSE ref.val

\* BlockManager.clear_updated_blocks
clear_updated_blocks(ub) == {}

\* World.load_chunk_blocks: flat_world = not use_terrain.
load_chunk_blocks(bd, c, ground_y, use_terrain) ==
    load_chunk(bd, c, ground_y, IF use_terrain THEN "terrain" ELSE "flat")


-----------------------------------------------------------------------------
(* ChunkManager and Player (src/src/packet_debug_server.py) *)

\* World(view_distance=10, ...) in handle_client.
ViewDistance == 10

\* ChunkManager.__init__: loading_radius = view_distance + 2, cut to MaxRadius.
loading_radius == Min(ViewDistance + 2, MaxRadius)

\* ChunkManager.world_to_chunk: int(world_x) // 16.
world_to_chunk(x, z) == << PyInt(x) \div 16, PyInt(z) \div 16 >>

\* ChunkManager.get_chunks_in_range: the list, dx outer and dz inner.
get_chunks_in_range(c) ==
    LET n == 2 * loading_radius + 1
    IN  [i \in 1 .. n * n |->
            << c[1] + ((i - 1) \div n) - loading_radius,
               c[2] + ((i - 1) % n) - loading_radius >>]

\* ChunkManager.get_chunks_to_load
get_chunks_to_load(c, loaded_chunks) ==
    LET NotLoaded(ch) == ch \notin loaded_chunks
    IN  SelectSeq(get_chunks_in_range(c), NotLoaded)

\* ChunkManager.get_chunks_to_unload, as a set (the order of the list is the
\* iteration order of a Python set and plays no part).
get_chunks_to_unload(c, loaded_chunks) ==
    LET keep_radius == loading_radius + 1
    IN  { ch \in loaded_chunks :
            ~(Abs(ch[1] - c[1]) <= keep_radius /\ Abs(ch[2] - c[2]) <= keep_radius) }

Manhattan(ch, c) == Abs(ch[1] - c[1]) + Abs(ch[2] - c[2])

\* Insert ch into a list sorted by distance from c, after the entries that
\* are at most as far (list.sort is stable).
RECURSIVE InsertByDistance(_, _, _)
InsertByDistance(sorted, ch, c) ==
    IF sorted = << >> THEN << ch >>
    ELSE IF Manhattan(Head(sorted), c) <= Manhattan(ch, c)
         THEN << Head(sorted) >> \o InsertByDistance(Tail(sorted), ch, c)
         ELSE << ch >> \o sorted

\* The list is left in the order it was queued in.
SortByDistance_Unsorted(chunks, c) == chunks

\* chunks.sort(key = Manhattan distance from the center)
RECURSIVE SortByDistance(_, _)
SortByDistance(chunks, c) ==
    IF chunks = << >> THEN << >>
    ELSE InsertByDistance(SortByDistance(SubSeq(chunks, 1, Len(chunks) - 1), c),
                          chunks[Len(chunks)], c)

\* Player.__init__
NewPlayer ==
    [x |-> 0, y |-> 64 * Unit, z |-> 0, chunk_x |-> 0, chunk_z |-> 0,
     selected_hotbar_slot |-> 0, inventory_slots |-> << >>, inventory_state_id |-> 0,
     cursor_item |-> << >>, loaded_chunks |-> {}]

\* Player.update_position: the player afterwards.
update_position(pl, x, y, z) ==
    LET nc == world_to_chunk(x, z)
    IN  [pl EXCEPT !.x = x, !.y = y, !.z = z, !.chunk_x = nc[1], !.chunk_z = nc[2]]

\* Player.update_position: whether it reports a chunk change.
chunk_changed(pl, x, z) == << pl.chunk_x, pl.chunk_z >> # world_to_chunk(x, z)

-----------------------------------------------------------------------------
(* The socket *)

\* One write on the socket: the packet, which part of its bytes ("whole", or
\* "first" / "last" when sendall needs two send calls), the writing thread and
\* the holder of ChunkLoader.socket_lock at the time.
Write(name, arg, part, by, lock) ==
    [name |-> name, arg |-> arg, part |-> part, by |-> by, lock |-> lock]

\* client_socket.send / sendall by the session handler; on a socket that is
\* not open the call raises and nothing is written.
SessionSend(wr, s, name, arg) ==
    IF sock[s] = "open"
    THEN Append(wr, Write(name, arg, "whole", "session", socket_lock[s]))
    ELSE wr

\* The same for a list of packets << name, arg >> sent one after the other.
RECURSIVE SessionSendAll(_, _, _)
SessionSendAll(wr, s, pkts) ==
    IF pkts = << >> THEN wr
    ELSE SessionSendAll(SessionSend(wr, s, Head(pkts)[1], Head(pkts)[2]), s, Tail(pkts))

-----------------------------------------------------------------------------
(* Initial state: the listener has accepted the connections *)

\* The locals of update_item_entities before its first call: the entities
\* still to update, the entity objects, the cache entry read for the entity
\* in hand and the set get_updated_blocks returned last.
NoLocals ==
    [todo |-> << >>, objs |-> << >>, cache |-> << >>, ref |-> [alias |-> FALSE, val |-> {}]]

\* No byte has been written on the connection.
NoBytes ==
    [stream |-> << >>, recvd |-> 0, buffer |-> << >>, packets |-> << >>, fails |-> << >>]

\* Everything but the players.
InitOthers ==
    /\ connection_state = [s \in Sessions |-> HANDSHAKING]
    /\ known_packs_sent = [s \in Sessions |-> FALSE]
    /\ player_uuid = [s \in Sessions |-> "none"]
    /\ buffer = [s \in Sessions |-> << >>]
    /\ recv_count = [s \in Sessions |-> 0]
    /\ spc = [s \in Sessions |-> "read"]
    /\ sock = [s \in Sessions |-> "open"]
    /\ wire = [s \in Sessions |-> << >>]
    /\ world = [s \in Sessions |-> 0]
    /\ has_player = [s \in Sessions |-> FALSE]
    /\ keep_alive_thread = [s \in Sessions |-> FALSE]
    /\ stop_event = [s \in Sessions |-> FALSE]
    /\ has_loader = [s \in Sessions |-> FALSE]
    /\ chunk_queue = [s \in Sessions |-> << >>]
    /\ socket_lock = [s \in Sessions |-> "free"]
    /\ wpc = [s \in Sessions |-> "none"]
    /\ wjob = [s \in Sessions |-> [chunks |-> << >>, center |-> << >>]]
    /\ kpc = [s \in Sessions |-> "none"]
    /\ ka_sent = [s \in Sessions |-> 0]
    /\ num_worlds = 0
    /\ block_data = [w \in WorldIds |-> EmptyBlockData]
    /\ updated_blocks = [w \in WorldIds |-> {}]
    /\ item_entities = [w \in WorldIds |-> << >>]
    /\ next_entity_id = [w \in WorldIds |-> 1000]
    /\ entity_collision_cache = [w \in WorldIds |-> << >>]
    /\ tpc = [t \in TickThreadIds |-> "none"]
    /\ tlocal = [t \in TickThreadIds |-> NoLocals]
    /\ gravity_watch = [w \in WorldIds |-> [new |-> {}, due |-> {}, missed |-> {}]]
    /\ entity_update_pause_event = [w \in WorldIds |-> TRUE]
    /\ codec = [pc |-> "idle"]
    /\ net = NoBytes

Init ==
    /\ InitOthers
    /\ player = [s \in Sessions |-> NewPlayer]


-----------------------------------------------------------------------------
(* The client *)

\* The intents a Handshake may carry.
Intents == {1, 2, 3}

\* A double that is not a number (the parser unpacks any eight bytes): the
\* model writes it as a value no coordinate reaches.
NaN == -(1000000 * Unit)

\* a + b in floating point.
Plus(a, b) == IF a = NaN \/ b = NaN THEN NaN ELSE a + b

\* Positions a client reports (x, y, z), in units.
PosChoices ==
    << << 0, 65 * Unit, 0 >>,
       << 16 * Unit, 65 * Unit, 0 >>,
       << -(Unit \div 2), 65 * Unit, 0 >>,
       << Unit \div 2, 64 * Unit + (Unit \div 2), Unit \div 2 >>,
       << 0, -(70 * Unit), 0 >>,
       << NaN, 65 * Unit, 0 >>,
       << 32 * Unit, 65 * Unit, 0 >> >>

\* Blocks a client digs at.
DigTargets == << << 0, 64, 0 >>, << 0, 63, 0 >>, << 0, 66, 0 >> >>

\* The packets the client of the model sends.
ClientPackets ==
    { Packet(ID_HANDSHAKE, i, TRUE) : i \in Intents }
    \cup { Packet(0, 0, TRUE), Packet(0, 0, FALSE), Packet(ID_ACK, 0, TRUE),
           Packet(ID_KNOWN_PACKS, 0, TRUE), Packet(ID_UNKNOWN, 0, TRUE),
           Packet(ID_KEEP_ALIVE, 0, TRUE), Packet(ID_SET_ROTATION, 0, TRUE) }
    \cup { Packet(ID_SET_POSITION, i, TRUE) : i \in 1 .. 4 }
    \cup { Packet(ID_SET_POSITION_ROTATION, 2, TRUE) }
    \cup { Packet(ID_PLAYER_ACTION, i, TRUE) : i \in 1 .. Len(DigTargets) }
    \cup { Packet(ID_PLAYER_ACTION, 0, TRUE) }
    \cup { Packet(ID_SET_HELD_ITEM, 1, TRUE) }

\* The client sends packet p; the session's recv and de-framing put it at
\* the end of the packets to handle.
ClientSend(s, p) ==
    /\ sock[s] = "open"
    /\ spc[s] # "closed"
    /\ recv_count[s] < MaxRecv
    /\ Len(buffer[s]) < MaxBuf
    /\ buffer' = [buffer EXCEPT ![s] = Append(@, p)]
    /\ recv_count' = [recv_count EXCEPT ![s] = @ + 1]
    /\ UNCHANGED << connVars, spc, sock, wire, world, has_player, stop_event, player,
                    loaderVars, kaVars, worldVars, tickVars,
                    entity_update_pause_event, codec, net >>

\* The peer resets the connection: later sends and recv raise.
SocketBreak(s) ==
    /\ sock[s] = "open"
    /\ sock' = [sock EXCEPT ![s] = "broken"]
    /\ UNCHANGED << connVars, buffer, recv_count, spc, wire, world, has_player,
                    stop_event, player, loaderVars, kaVars, worldVars, tickVars,
                    entity_update_pause_event, codec, net >>

-----------------------------------------------------------------------------
(* handle_client: the packet loop before Play *)

\* The session thread is in its parse loop with packet p next.
AtPacket(s) == spc[s] = "read" /\ buffer[s] # << >>

Next_packet(s) == Head(buffer[s])

\* offset = total_packet_size
Consume(s) == buffer' = [buffer EXCEPT ![s] = Tail(@)]

\* The parser the next packet of s is given to.
NextParser(s) == ParserFor(connection_state[s], Next_packet(s).id)

\* A Handshake whose intent is not 1 leads to Login.
HandshakeTarget_Any(st, intent) == IF intent = 1 THEN STATUS ELSE LOGIN

\* The state a Handshake with the given intent leads to.
HandshakeTarget(st, intent) ==
    IF intent = 2 THEN LOGIN
    ELSE IF intent = 1 THEN STATUS
    ELSE st

HandleHandshake(s) ==
    /\ AtPacket(s)
    /\ NextParser(s) = "handshake"
    /\ Next_packet(s).ok
    /\ connection_state' = [connection_state EXCEPT
                              ![s] = HandshakeTarget(@, Next_packet(s).arg)]
    /\ Consume(s)
    /\ UNCHANGED << known_packs_sent, player_uuid, recv_count, spc, sock, wire, world,
                    has_player, stop_event, player, loaderVars, kaVars, worldVars,
                    tickVars,
                    entity_update_pause_event, codec, net >>

HandleLoginStart(s) ==
    /\ AtPacket(s)
    /\ NextParser(s) = "login_start"
    /\ Next_packet(s).ok
    /\ player_uuid' = [player_uuid EXCEPT ![s] = "client"]
    /\ wire' = [wire EXCEPT ![s] = SessionSend(@, s, "LoginSuccess", << >>)]
    /\ Consume(s)
    /\ UNCHANGED << connection_state, known_packs_sent, recv_count, spc, sock, world,
                    has_player, stop_event, player, loaderVars, kaVars, worldVars,
                    tickVars,
                    entity_update_pause_event, codec, net >>

\* Login Acknowledged: parse_packet answers (3, None) in LOGIN.
LoginAckTarget == CONFIGURATION

HandleLoginAcknowledged(s) ==
    /\ AtPacket(s)
    /\ connection_state[s] = LOGIN
    /\ NextParser(s) = "empty"
    /\ connection_state' = [connection_state EXCEPT ![s] = LoginAckTarget]
    /\ Consume(s)
    /\ UNCHANGED << known_packs_sent, player_uuid, recv_count, spc, sock, wire, world,
                    has_player, stop_event, player, loaderVars, kaVars, worldVars,
                    tickVars,
                    entity_update_pause_event, codec, net >>

\* Client Information sends Known Packs every time.
SendsKnownPacks_Always(s) == TRUE

\* Whether Client Information sends the server's Known Packs.
SendsKnownPacks(s) == ~known_packs_sent[s]

HandleClientInformation(s) ==
    /\ AtPacket(s)
    /\ NextParser(s) = "client_information"
    /\ Next_packet(s).ok
    /\ IF SendsKnownPacks(s)
       THEN /\ wire' = [wire EXCEPT ![s] = SessionSend(@, s, "KnownPacks", << >>)]
            /\ known_packs_sent' = [known_packs_sent EXCEPT ![s] = (sock[s] = "open")]
       ELSE UNCHANGED << wire, known_packs_sent >>
    /\ Consume(s)
    /\ UNCHANGED << connection_state, player_uuid, recv_count, spc, sock, world,
                    has_player, stop_event, player, loaderVars, kaVars, worldVars,
                    tickVars,
                    entity_update_pause_event, codec, net >>

\* required_registry_ids, by position in the list.
NumRegistries == 11

\* len(get_registry_entries(registry_id)) with the fallback tables (the
\* extraction script writes no registry without entries).
registry_entries == << 1, 11, 3, 3, 3, 26, 3, 8, 7, 1, 1 >>

\* The packets the Known Packs handler sends, in order: one Registry Data per
\* registry that has entries, then Finish Configuration.
KnownPacksReply ==
    LET HasEntries(r) == registry_entries[r] > 0
        regs == SelectSeq([r \in 1 .. NumRegistries |-> r], HasEntries)
    IN  [i \in 1 .. Len(regs) |-> << "RegistryData", << regs[i] >> >>]
        \o << << "FinishConfiguration", << >> >> >>

HandleKnownPacks(s) ==
    /\ AtPacket(s)
    /\ NextParser(s) = "known_packs"
    /\ Next_packet(s).ok
    /\ wire' = [wire EXCEPT ![s] = SessionSendAll(@, s, KnownPacksReply)]
    /\ Consume(s)
    /\ UNCHANGED << connVars, recv_count, spc, sock, world, has_player, stop_event,
                    player, loaderVars, kaVars, worldVars, tickVars,
                    entity_update_pause_event, codec, net >>

\* A packet parse_packet does not know in this state: (id, None) comes back
\* and handle_client prints "not recognized".
HandleUnknown(s) ==
    /\ AtPacket(s)
    /\ NextParser(s) = "unknown"
    /\ Consume(s)
    /\ UNCHANGED << connVars, recv_count, spc, sock, wire, world, has_player,
                    stop_event, player, loaderVars, kaVars, worldVars, tickVars,
                    entity_update_pause_event, codec, net >>

\* The body does not parse: the parser raises, `except Exception as
\* parse_error` prints it and the loop moves to the next packet.
HandleParseError(s) ==
    /\ AtPacket(s)
    /\ NextParser(s) \notin {"unknown", "empty"}
    /\ ~Next_packet(s).ok
    /\ Consume(s)
    /\ UNCHANGED << connVars, recv_count, spc, sock, wire, world, has_player,
                    stop_event, player, loaderVars, kaVars, worldVars, tickVars,
                    entity_update_pause_event, codec, net >>


-----------------------------------------------------------------------------
(* handle_client: entering Play and the bootstrap *)

\* The chunks are queued before Set Center Chunk is sent.
BootstrapOrder_QueueFirst ==
    << "LoginPlay", "SyncPos", "UpdateTime", "GameEvent", "QueueChunks",
       "SetCenter", "StartKeepAlive" >>

\* The statements of the bootstrap after chunk_loader.start(), in source order.
BootstrapOrder ==
    << "LoginPlay", "SyncPos", "UpdateTime", "GameEvent", "SetCenter",
       "QueueChunks", "StartKeepAlive" >>

BootSteps == { BootstrapOrder[i] : i \in 1 .. Len(BootstrapOrder) }

BootIndex(step) == CHOOSE i \in 1 .. Len(BootstrapOrder) : BootstrapOrder[i] = step

\* The position of the session thread after bootstrap statement `step`.
AfterBoot(step) ==
    IF BootIndex(step) = Len(BootstrapOrder) THEN "read"
    ELSE BootstrapOrder[BootIndex(step) + 1]

\* The packet a sending bootstrap statement builds.
BootPacket(step) ==
    CASE step = "LoginPlay" -> << "LoginPlay", << 1 >> >>
      [] step = "SyncPos" -> << "SyncPlayerPosition", << 0, 65, 0, 0 >> >>
      [] step = "UpdateTime" -> << "UpdateTime", << 0, 6000 >> >>
      [] step = "GameEvent" -> << "GameEvent", << 13 >> >>
      [] step = "SetCenter" -> << "SetCenterChunk", << 0, 0 >> >>

\* Acknowledge Finish Configuration: parse_packet answers (3, None) in
\* CONFIGURATION.  The handler enters Play, constructs a World (whose
\* __init__ starts an entity update thread), the Player and the ChunkLoader,
\* and starts the chunk worker.
HandleAckFinish(s) ==
    /\ AtPacket(s)
    /\ connection_state[s] = CONFIGURATION
    /\ NextParser(s) = "empty"
    /\ num_worlds < Cardinality(WorldIds)
    /\ LET w == num_worlds + 1
       IN  /\ connection_state' = [connection_state EXCEPT ![s] = PLAY]
           /\ num_worlds' = w
           /\ world' = [world EXCEPT ![s] = w]
           /\ tpc' = [tpc EXCEPT ![w] = "wait"]
           /\ player_uuid' = [player_uuid EXCEPT ![s] = IF @ = "none" THEN "random" ELSE @]
           /\ player' = [player EXCEPT ![s] = update_position(NewPlayer, 0, 65 * Unit, 0)]
           /\ has_player' = [has_player EXCEPT ![s] = TRUE]
           /\ has_loader' = [has_loader EXCEPT ![s] = TRUE]
           /\ wpc' = [wpc EXCEPT ![s] = "idle"]
           /\ spc' = [spc EXCEPT ![s] = BootstrapOrder[1]]
    /\ UNCHANGED << known_packs_sent, buffer, recv_count, sock, wire, keep_alive_thread,
                    stop_event, chunk_queue, socket_lock, wjob, kpc, ka_sent, block_data,
                    updated_blocks, item_entities, next_entity_id,
                    entity_collision_cache, tlocal, gravity_watch,
                    entity_update_pause_event, codec, net >>

\* A bootstrap statement that sends a packet.  Login (play) failing leaves
\* the bootstrap through the outer except; the other sends have their own.
BootSend(s) ==
    /\ spc[s] \in {"LoginPlay", "SyncPos", "UpdateTime", "GameEvent", "SetCenter"}
    /\ wire' = [wire EXCEPT ![s] =
                  SessionSend(@, s, BootPacket(spc[s])[1], BootPacket(spc[s])[2])]
    /\ IF spc[s] = "LoginPlay" /\ sock[s] # "open"
       THEN /\ spc' = [spc EXCEPT ![s] = "read"]
            /\ Consume(s)
       ELSE /\ spc' = [spc EXCEPT ![s] = AfterBoot(@)]
            /\ IF AfterBoot(spc[s]) = "read" THEN Consume(s) ELSE UNCHANGED buffer
    /\ UNCHANGED << connVars, recv_count, sock, world, has_player, stop_event, player,
                    loaderVars, kaVars, worldVars, tickVars,
                    entity_update_pause_event, codec, net >>

\* chunk_loader.queue_chunks(player.get_chunks_in_range(), center_chunk=(0, 0))
BootQueueChunks(s) ==
    /\ spc[s] = "QueueChunks"
    /\ chunk_queue' = [chunk_queue EXCEPT ![s] =
          Append(@, [action |-> "load",
                     chunks |-> get_chunks_in_range(<< player[s].chunk_x, player[s].chunk_z >>),
                     center |-> << 0, 0 >>])]
    /\ spc' = [spc EXCEPT ![s] = AfterBoot(@)]
    /\ IF AfterBoot(spc[s]) = "read" THEN Consume(s) ELSE UNCHANGED buffer
    /\ UNCHANGED << connVars, recv_count, sock, wire, world, has_player, stop_event,
                    player, has_loader, socket_lock, wpc, wjob, kaVars, worldVars,
                    tickVars,
                    entity_update_pause_event, codec, net >>

\* keep_alive_thread = threading.Thread(...); keep_alive_thread.start()
BootStartKeepAlive(s) ==
    /\ spc[s] = "StartKeepAlive"
    /\ keep_alive_thread' = [keep_alive_thread EXCEPT ![s] = TRUE]
    /\ kpc' = [kpc EXCEPT ![s] = "loop"]
    /\ spc' = [spc EXCEPT ![s] = AfterBoot(@)]
    /\ IF AfterBoot(spc[s]) = "read" THEN Consume(s) ELSE UNCHANGED buffer
    /\ UNCHANGED << connVars, recv_count, sock, wire, world, has_player, stop_event,
                    player, loaderVars, ka_sent, worldVars, tickVars,
                    entity_update_pause_event, codec, net >>

-----------------------------------------------------------------------------
(* ChunkLoader._worker *)

\* The lock the worker holds while it writes a packet.
WorkerLock == "worker"

\* The worker takes the next message off the queue.
WorkerGet(s) ==
    /\ wpc[s] = "idle"
    /\ ~stop_event[s]
    /\ chunk_queue[s] # << >>
    /\ LET msg == Head(chunk_queue[s])
       IN  /\ chunk_queue' = [chunk_queue EXCEPT ![s] = Tail(@)]
           /\ IF msg.action = "load"
              THEN /\ IF msg.chunks = << >>
                      THEN UNCHANGED << wpc, wjob >>
                      ELSE /\ wjob' = [wjob EXCEPT ![s] =
                                  [chunks |-> SortByDistance(msg.chunks, msg.center),
                                   center |-> msg.center]]
                           /\ wpc' = [wpc EXCEPT ![s] = "chunk"]
                   /\ UNCHANGED player
              ELSE /\ player' = [player EXCEPT ![s].loaded_chunks = @ \ msg.chunks]
                   /\ UNCHANGED << wpc, wjob >>
    /\ UNCHANGED << connVars, buffer, recv_count, spc, sock, wire, world, has_player,
                    stop_event, has_loader, socket_lock, kaVars, worldVars, tickVars,
                    entity_update_pause_event, codec, net >>

\* use_terrain_generation of the World handle_client constructs.
UseTerrain == TRUE

\* One turn of `for chunk_x, chunk_z in chunks`: load the chunk into the
\* block manager, build the packet, take the lock and start sending.
WorkerChunk(s) ==
    /\ wpc[s] = "chunk"
    /\ IF wjob[s].chunks = << >> \/ stop_event[s]
       THEN /\ wpc' = [wpc EXCEPT ![s] = "center"]
            /\ UNCHANGED << wjob, block_data, wire, socket_lock >>
       ELSE LET c == Head(wjob[s].chunks)
                w == world[s]
            IN  /\ block_data' = [block_data EXCEPT ![w] =
                                    load_chunk_blocks(@, c, 64, UseTerrain)]
                /\ IF sock[s] = "open"
                   THEN /\ socket_lock' = [socket_lock EXCEPT ![s] = WorkerLock]
                        /\ wire' = [wire EXCEPT ![s] =
                              Append(@, Write("ChunkData", c, "first", "worker", WorkerLock))]
                        /\ wpc' = [wpc EXCEPT ![s] = "sending"]
                        /\ UNCHANGED wjob
                   ELSE /\ wjob' = [wjob EXCEPT ![s].chunks = Tail(@)]
                        /\ UNCHANGED << wire, socket_lock, wpc >>
    /\ UNCHANGED << connVars, buffer, recv_count, spc, sock, world, has_player,
                    stop_event, player, has_loader, chunk_queue, kaVars, num_worlds,
                    updated_blocks, item_entities, next_entity_id,
                    entity_collision_cache, tickVars,
                    entity_update_pause_event, codec, net >>

\* The rest of sendall, the release of the lock and mark_chunk_loaded.
WorkerSendRest(s) ==
    /\ wpc[s] = "sending"
    /\ LET c == Head(wjob[s].chunks)
       IN  IF sock[s] = "open"
           THEN /\ wire' = [wire EXCEPT ![s] =
                      Append(@, Write("ChunkData", c, "last", "worker", socket_lock[s]))]
                /\ player' = [player EXCEPT ![s].loaded_chunks = @ \cup {c}]
           ELSE UNCHANGED << wire, player >>
    /\ socket_lock' = [socket_lock EXCEPT ![s] = "free"]
    /\ wjob' = [wjob EXCEPT ![s].chunks = Tail(@)]
    /\ wpc' = [wpc EXCEPT ![s] = "chunk"]
    /\ UNCHANGED << connVars, buffer, recv_count, spc, sock, world, has_player,
                    stop_event, has_loader, chunk_queue, kaVars, worldVars, tickVars,
                    entity_update_pause_event, codec, net >>

\* Set Center Chunk after the batch, under the lock.
WorkerCenter(s) ==
    /\ wpc[s] = "center"
    /\ IF ~stop_event[s] /\ sock[s] = "open"
       THEN wire' = [wire EXCEPT ![s] =
               Append(@, Write("SetCenterChunk", wjob[s].center, "whole", "worker", WorkerLock))]
       ELSE UNCHANGED wire
    /\ wpc' = [wpc EXCEPT ![s] = "idle"]
    /\ UNCHANGED << connVars, buffer, recv_count, spc, sock, world, has_player,
                    stop_event, player, has_loader, chunk_queue, socket_lock, wjob,
                    kaVars, worldVars, tickVars,
                    entity_update_pause_event, codec, net >>

\* `while not self.stop_event.is_set()` ends the worker.
WorkerExit(s) ==
    /\ wpc[s] = "idle"
    /\ stop_event[s]
    /\ wpc' = [wpc EXCEPT ![s] = "stopped"]
    /\ UNCHANGED << connVars, buffer, recv_count, spc, sock, wire, world, has_player,
                    stop_event, player, has_loader, chunk_queue, socket_lock, wjob,
                    kaVars, worldVars, tickVars,
                    entity_update_pause_event, codec, net >>

-----------------------------------------------------------------------------
(* keep_alive_worker *)

\* The lock the keep-alive thread holds while it writes: whatever holder
\* socket_lock has, the thread itself never takes it.
KeepAliveSend(s) ==
    /\ kpc[s] = "loop"
    /\ ~stop_event[s]
    /\ ka_sent[s] < MaxKeepAlive
    /\ IF sock[s] = "open"
       THEN /\ wire' = [wire EXCEPT ![s] =
                  Append(@, Write("KeepAlive", << >>, "whole", "keepalive", socket_lock[s]))]
            /\ ka_sent' = [ka_sent EXCEPT ![s] = @ + 1]
            /\ UNCHANGED kpc
       ELSE /\ kpc' = [kpc EXCEPT ![s] = "stopped"]
            /\ UNCHANGED << wire, ka_sent >>
    /\ UNCHANGED << connVars, buffer, recv_count, spc, sock, world, has_player,
                    stop_event, player, loaderVars, keep_alive_thread, worldVars,
                    tickVars,
                    entity_update_pause_event, codec, net >>

KeepAliveExit(s) ==
    /\ kpc[s] = "loop"
    /\ stop_event[s]
    /\ kpc' = [kpc EXCEPT ![s] = "stopped"]
    /\ UNCHANGED << connVars, buffer, recv_count, spc, sock, wire, world, has_player,
                    stop_event, player, loaderVars, ka_sent, keep_alive_thread,
                    worldVars, tickVars,
                    entity_update_pause_event, codec, net >>

-----------------------------------------------------------------------------
(* handle_client: leaving the read loop *)

\* recv raises or returns no data; the finally block stops the keep-alive
\* thread when there is one, and closes the socket.
SessionClose(s) ==
    /\ spc[s] = "read"
    /\ buffer[s] = << >>
    /\ sock[s] = "broken"
    /\ stop_event' = [stop_event EXCEPT ![s] = @ \/ keep_alive_thread[s]]
    /\ sock' = [sock EXCEPT ![s] = "closed"]
    /\ spc' = [spc EXCEPT ![s] = "closed"]
    /\ UNCHANGED << connVars, buffer, recv_count, wire, world, has_player, player,
                    loaderVars, kaVars, worldVars, tickVars,
                    entity_update_pause_event, codec, net >>


-----------------------------------------------------------------------------
(* handle_client: the Play handlers *)

\* ItemEntity; `ripe` says that pickup_delay has passed since spawn_time.
ItemEntity(x, y, z, vx, vy, vz, item_id, count) ==
    [x |-> x, y |-> y, z |-> z, velocity_x |-> vx, velocity_y |-> vy,
     velocity_z |-> vz, item_id |-> item_id, count |-> count, ripe |-> FALSE]

\* get_block_name_from_state_id: the name blocks.json gives a block state id,
\* "none" when it has none.  The ids of the block manager are those of air,
\* stone, water and the wools it builds terrain from.
get_block_name_from_state_id(block_state_id) ==
    CASE block_state_id = BLOCK_AIR -> "minecraft:air"
      [] block_state_id = BLOCK_STONE -> "minecraft:stone"
      [] block_state_id = 14 -> "minecraft:cobblestone"
      [] block_state_id = BLOCK_WATER -> "minecraft:water"
      [] block_state_id = BLOCK_WHITE_WOOL -> "minecraft:white_wool"
      [] block_state_id = BLOCK_YELLOW_WOOL -> "minecraft:yellow_wool"
      [] block_state_id = BLOCK_GRASS_BLOCK -> "minecraft:lime_wool"
      [] block_state_id = BLOCK_DIRT -> "minecraft:brown_wool"
      [] OTHER -> "none"

\* get_item_for_block: the item name loot_table_mappings.json gives a block
\* name, "none" when the block has no loot table (air, water).
get_item_for_block(block_name) ==
    CASE block_name = "minecraft:stone" -> "minecraft:cobblestone"
      [] block_name \in {"minecraft:cobblestone", "minecraft:white_wool", "minecraft:yellow_wool",
                         "minecraft:lime_wool", "minecraft:brown_wool"} -> block_name
      [] OTHER -> "none"

\* get_item_id_from_name: the protocol id of an item, 0 for None.
get_item_id_from_name(item_name) ==
    CASE item_name = "minecraft:cobblestone" -> 14
      [] item_name = "minecraft:white_wool" -> 200
      [] item_name = "minecraft:yellow_wool" -> 204
      [] item_name = "minecraft:lime_wool" -> 205
      [] item_name = "minecraft:brown_wool" -> 212
      [] OTHER -> 0

\* The ids of dict d in insertion order (entity ids only grow).
RECURSIVE KeysAscending(_)
KeysAscending(ks) ==
    IF ks = {} THEN << >>
    ELSE LET m == CHOOSE k \in ks : \A j \in ks : k <= j
         IN  << m >> \o KeysAscending(ks \ {m})

\* Player.check_item_pickups: the entity ids in the pickup box.
check_item_pickups(pl, ents) ==
    LET InBox(id) ==
            /\ ents[id].ripe
            /\ Abs(ents[id].x - pl.x) <= Unit
            /\ Abs(ents[id].z - pl.z) <= Unit
            /\ -(Unit \div 2) < ents[id].y - pl.y
            /\ ents[id].y - pl.y <= (162 * Unit) \div 100
    IN  SelectSeq(KeysAscending(DOMAIN ents), InBox)

\* `for slot_idx in valid_slots`: the first slot from slot_idx on, up to 44,
\* that holds item_id with room left; -1 when the loop ends.
RECURSIVE first_stack(_, _, _)
first_stack(inv, item_id, slot_idx) ==
    IF slot_idx >= 45 THEN -1
    ELSE IF slot_idx \in DOMAIN inv /\ inv[slot_idx][1] = item_id /\ inv[slot_idx][2] < 64
    THEN slot_idx
    ELSE first_stack(inv, item_id, slot_idx + 1)

\* `for slot_idx in range(slot_idx, stop)`: the first slot not in
\* inventory_slots; -1 when the loop ends.
RECURSIVE first_empty(_, _, _)
first_empty(inv, slot_idx, stop) ==
    IF slot_idx >= stop THEN -1
    ELSE IF slot_idx \notin DOMAIN inv THEN slot_idx
    ELSE first_empty(inv, slot_idx + 1, stop)

\* The main inventory is tried before the hotbar.
find_slot_for_item_MainFirst(pl, item_id) ==
    LET inv == pl.inventory_slots
    IN  IF first_stack(inv, item_id, 9) # -1 THEN first_stack(inv, item_id, 9)
        ELSE IF first_empty(inv, 9, 36) # -1 THEN first_empty(inv, 9, 36)
        ELSE first_empty(inv, 36, 45)

\* Player.find_slot_for_item; -1 for None.
find_slot_for_item(pl, item_id) ==
    LET inv == pl.inventory_slots
    IN  IF first_stack(inv, item_id, 9) # -1 THEN first_stack(inv, item_id, 9)
        ELSE IF first_empty(inv, 36, 45) # -1 THEN first_empty(inv, 36, 45)
        ELSE first_empty(inv, 9, 36)

\* Player.update_slot
update_slot(inv, slot_idx, item_id, count) ==
    IF count > 0 /\ item_id > 0
    THEN [i \in DOMAIN inv \cup {slot_idx} |->
             IF i = slot_idx THEN << item_id, count >> ELSE inv[i]]
    ELSE [i \in DOMAIN inv \ {slot_idx} |-> inv[i]]

\* dict.pop(key, None)
Pop(d, key) == [k \in DOMAIN d \ {key} |-> d[k]]

\* Stacking keeps only the picked up count.
stack_count_Replace(existing_count, count) == count

\* new_count = existing_count + item_entity.count, capped at the stack size.
stack_count(existing_count, count) ==
    IF existing_count + count > 64 THEN 64 ELSE existing_count + count

\* One turn of `for item_entity in items_to_pickup` on an open socket; st is
\* the player, the world's entities and cache, and the wire.
PickupItem(st, id) ==
    LET e == st.ents[id]
        slot == find_slot_for_item(st.pl, e.item_id)
        inv == st.pl.inventory_slots
        stacking == slot \in DOMAIN inv
        final_id == IF stacking THEN inv[slot][1] ELSE e.item_id
        final_count == IF stacking THEN stack_count(inv[slot][2], e.count) ELSE e.count
        pl2 == IF slot = -1 THEN st.pl
               ELSE [st.pl EXCEPT !.inventory_slots = update_slot(inv, slot, final_id, final_count),
                                  !.inventory_state_id = @ + 1]
        sent == << << "PickupItem", << id, e.count >> >>,
                   << "RemoveEntities", << id >> >> >>
                \o (IF slot = -1 THEN << >>
                    ELSE << << "SetContainerSlot",
                               << pl2.inventory_state_id, slot, final_id, final_count >> >> >>)
    IN  [pl |-> pl2, ents |-> Pop(st.ents, id), cache |-> Pop(st.cache, id),
         sent |-> st.sent \o sent]

RECURSIVE PickupAll(_, _)
PickupAll(st, ids) ==
    IF ids = << >> THEN st ELSE PickupAll(PickupItem(st, Head(ids)), Tail(ids))

\* Set Player Position (0x1D) and Set Player Position and Rotation (0x1E).
HandleSetPosition(s) ==
    /\ AtPacket(s)
    /\ NextParser(s) \in {"set_player_position", "set_player_position_and_rotation"}
    /\ Next_packet(s).ok
    /\ LET w == world[s]
           pos == PosChoices[Next_packet(s).arg]
           changed == chunk_changed(player[s], pos[1], pos[3])
           pl1 == update_position(player[s], pos[1], pos[2], pos[3])
           st0 == [pl |-> pl1, ents |-> item_entities[w],
                   cache |-> entity_collision_cache[w], sent |-> << >>]
           st == IF sock[s] = "open"
                 THEN PickupAll(st0, check_item_pickups(pl1, item_entities[w]))
                 ELSE st0
           nc == << pl1.chunk_x, pl1.chunk_z >>
           to_load == get_chunks_to_load(nc, pl1.loaded_chunks)
           to_unload == get_chunks_to_unload(nc, pl1.loaded_chunks)
           center == IF changed THEN << << "SetCenterChunk", nc >> >> ELSE << >>
           q1 == IF changed /\ to_load # << >>
                 THEN << [action |-> "load", chunks |-> to_load, center |-> nc] >>
                 ELSE << >>
           q2 == IF changed /\ to_unload # {}
                 THEN << [action |-> "unload", chunks |-> to_unload, center |-> nc] >>
                 ELSE << >>
       IN  IF pos[1] = NaN \/ pos[3] = NaN
           THEN \* update_position has stored x, y, z when int(x) raises
                /\ player' = [player EXCEPT ![s].x = pos[1], ![s].y = pos[2],
                                            ![s].z = pos[3]]
                /\ UNCHANGED << item_entities, entity_collision_cache, gravity_watch,
                                wire, chunk_queue >>
           ELSE /\ player' = [player EXCEPT ![s] = st.pl]
                /\ item_entities' = [item_entities EXCEPT ![w] = st.ents]
                /\ entity_collision_cache' = [entity_collision_cache EXCEPT ![w] = st.cache]
                /\ gravity_watch' = [gravity_watch EXCEPT
                                       ![w].new = @ \cap DOMAIN st.ents,
                                       ![w].due = @ \cap DOMAIN st.ents]
                /\ wire' = [wire EXCEPT ![s] = SessionSendAll(@, s, st.sent \o center)]
                /\ chunk_queue' = [chunk_queue EXCEPT ![s] = @ \o q1 \o q2]
    /\ Consume(s)
    /\ UNCHANGED << connVars, recv_count, spc, sock, world, has_player, stop_event,
                    has_loader, socket_lock, wpc, wjob, kaVars, num_worlds, block_data,
                    updated_blocks, next_entity_id, tpc, tlocal,
                    entity_update_pause_event, codec, net >>

\* Serverbound Keep Alive, Set Player Rotation, and a Player Action that
\* neither finishes digging nor drops: nothing the model holds changes.
HandleNoEffect(s) ==
    /\ AtPacket(s)
    /\ \/ NextParser(s) \in {"keep_alive", "set_player_rotation"}
       \/ NextParser(s) = "player_action" /\ Next_packet(s).arg = 0
    /\ Next_packet(s).ok
    /\ Consume(s)
    /\ UNCHANGED << connVars, recv_count, spc, sock, wire, world, has_player,
                    stop_event, player, loaderVars, kaVars, worldVars, tickVars,
                    entity_update_pause_event, codec, net >>

\* Set Held Item
HandleSetHeldItem(s) ==
    /\ AtPacket(s)
    /\ NextParser(s) = "set_held_item"
    /\ Next_packet(s).ok
    /\ player' = [player EXCEPT ![s].selected_hotbar_slot = Next_packet(s).arg]
    /\ Consume(s)
    /\ UNCHANGED << connVars, recv_count, spc, sock, wire, world, has_player,
                    stop_event, loaderVars, kaVars, worldVars, tickVars,
                    entity_update_pause_event, codec, net >>

\* The horizontal velocities << velocity_x, velocity_z >> a block drop may
\* get, each (random.random() - 0.5) * 0.1.
DropSpread == { << 0, 0 >>, << -((3 * Unit) \div 100), (2 * Unit) \div 100 >> }

\* How many Block Update packets for one block the spin of a drop-less dig
\* may put on the wire before the model stops following it.
MaxSpin == 2

BlockUpdatesFor(wr, b) ==
    Cardinality({ i \in 1 .. Len(wr) : wr[i].name = "BlockUpdate" /\ wr[i].arg = b })

\* The entities of world w that are frozen (gravity_disabled) on a collision
\* check that looked at block b.
Frozen(w, b) ==
    { id \in DOMAIN entity_collision_cache[w] :
        /\ entity_collision_cache[w][id].gravity_disabled
        /\ b \in entity_collision_cache[w][id].blocks_checked }

\* Whether the dig handler leaves by `continue`, before the offset is
\* advanced: the block has a name, and its item name or item id is None.
DigContinues(block_name, item_id) == block_name # "none" /\ item_id = 0

\* The drop is tracked before its packets are sent.
DigPacketOrder_SpawnFirst == << "SpawnEntity", "BlockUpdate", "SetEntityMetadata" >>

\* The packets of a dig with a drop, in the order of their sendall calls.
DigPacketOrder == << "BlockUpdate", "SpawnEntity", "SetEntityMetadata" >>

\* The arguments the dig handler builds each of its packets with.
DigPacket(name, b, entity_id, item_id) ==
    CASE name = "BlockUpdate" -> << name, b >>
      [] name = "SpawnEntity" -> << name, << entity_id >> >>
      [] name = "SetEntityMetadata" -> << name, << entity_id, item_id, 1 >> >>

\* Player Action with status 2 (finished digging) at DigTargets[arg].
HandleDig(s) ==
    /\ AtPacket(s)
    /\ NextParser(s) = "player_action"
    /\ Next_packet(s).arg \in 1 .. Len(DigTargets)
    /\ Next_packet(s).ok
    /\ LET w == world[s]
           b == DigTargets[Next_packet(s).arg]
           block_state_id == get_block(block_data[w], b)
           block_name == get_block_name_from_state_id(block_state_id)
           item_id == get_item_id_from_name(get_item_for_block(block_name))
           entity_id == next_entity_id[w]
       IN  /\ block_data' = [block_data EXCEPT ![w] = set_block_data(@, b, BLOCK_AIR)]
           /\ updated_blocks' = [updated_blocks EXCEPT ![w] = @ \cup {b}]
           /\ gravity_watch' = [gravity_watch EXCEPT ![w].new = @ \cup Frozen(w, b)]
           /\ IF block_name = "none"
              THEN \* no drop is looked up; the packet is consumed
                   /\ wire' = [wire EXCEPT ![s] = SessionSend(@, s, "BlockUpdate", b)]
                   /\ Consume(s)
                   /\ UNCHANGED << next_entity_id, item_entities >>
              ELSE IF DigContinues(block_name, item_id)
              THEN \* `continue`: the offset is not advanced
                   /\ BlockUpdatesFor(wire[s], b) < MaxSpin
                   /\ wire' = [wire EXCEPT ![s] = SessionSend(@, s, "BlockUpdate", b)]
                   /\ UNCHANGED << buffer, next_entity_id, item_entities >>
              ELSE /\ next_entity_id' = [next_entity_id EXCEPT ![w] = @ + 1]
                   /\ wire' = [wire EXCEPT ![s] =
                         SessionSendAll(@, s,
                            [k \in 1 .. Len(DigPacketOrder) |->
                               DigPacket(DigPacketOrder[k], b, entity_id, item_id)])]
                   /\ IF sock[s] = "open"
                      THEN \E v \in DropSpread :
                             item_entities' = [item_entities EXCEPT ![w] =
                                (entity_id :> ItemEntity(b[1] * Unit + Unit \div 2,
                                                         b[2] * Unit + Unit \div 2,
                                                         b[3] * Unit + Unit \div 2,
                                                         v[1], Unit \div 10, v[2], item_id, 1))
                                @@ @]
                      ELSE UNCHANGED item_entities
                   /\ Consume(s)
    /\ UNCHANGED << connVars, recv_count, spc, sock, world, has_player, stop_event,
                    player, loaderVars, kaVars, num_worlds, entity_collision_cache,
                    tpc, tlocal,
                    entity_update_pause_event, codec, net >>


-----------------------------------------------------------------------------
(* handle_client: dropping items *)

\* Where and how fast a thrown item starts, relative to the player:
\* << dx, dz, velocity_x, velocity_y, velocity_z >>; dx and dz are
\* (random.random() - 0.5) * 0.3 and the velocity is calculate_drop_velocity
\* at yaw = pitch = 0.
ThrowSpread ==
    { << 0, 0, 0, Unit \div 10, Unit \div 5 >>,
      << -((14 * Unit) \div 100), (14 * Unit) \div 100, Unit \div 100,
         (11 * Unit) \div 100, (19 * Unit) \div 100 >> }

\* Eye level above the feet: 1.52.
EyeOffset == (152 * Unit) \div 100

\* The encoding of a Player Action's status in the integer field of the
\* packet: digs at DigTargets[i] carry i, a drop carries minus its status.
ActionStatus(arg) == IF arg \in 1 .. Len(DigTargets) THEN 2 ELSE IF arg < 0 THEN -arg ELSE 0

\* Drop one item whatever the status.
drop_count_One(status, count) == 1

\* How many items a Player Action drops from a stack of count: status 3 the
\* stack, status 4 one.
drop_count(status, count) == IF status = 3 THEN count ELSE 1

\* The item entity a throw by player pl creates.
Thrown(pl, t, item_id, count) ==
    ItemEntity(Plus(pl.x, t[1]), Plus(pl.y, EyeOffset), Plus(pl.z, t[2]),
               t[3], t[4], t[5], item_id, count)

\* Player Action with status 3 (drop item stack) or 4 (drop item).
HandleDrop(s) ==
    /\ AtPacket(s)
    /\ NextParser(s) = "player_action"
    /\ ActionStatus(Next_packet(s).arg) \in {3, 4}
    /\ Next_packet(s).ok
    /\ LET w == world[s]
           pl == player[s]
           inv == pl.inventory_slots
           slot_idx == 36 + pl.selected_hotbar_slot
           has == slot_idx \in DOMAIN inv /\ inv[slot_idx][1] > 0 /\ inv[slot_idx][2] > 0
           item_id == inv[slot_idx][1]
           count == inv[slot_idx][2]
           dropped == drop_count(ActionStatus(Next_packet(s).arg), count)
           new_count == count - dropped
           entity_id == next_entity_id[w]
       IN  IF ~has
           THEN UNCHANGED << player, wire, next_entity_id, item_entities >>
           ELSE /\ player' = [player EXCEPT
                      ![s].inventory_slots =
                          IF new_count > 0 THEN update_slot(inv, slot_idx, item_id, new_count)
                          ELSE update_slot(inv, slot_idx, 0, 0),
                      ![s].inventory_state_id = @ + 1]
                /\ wire' = [wire EXCEPT ![s] =
                      SessionSendAll(@, s,
                         << << "SetContainerSlot",
                               << pl.inventory_state_id + 1, slot_idx,
                                  IF new_count > 0 THEN item_id ELSE 0, new_count >> >>,
                            << "SpawnEntity", << entity_id >> >>,
                            << "SetEntityMetadata", << entity_id, item_id, dropped >> >> >>)]
                /\ IF sock[s] = "open"
                   THEN /\ next_entity_id' = [next_entity_id EXCEPT ![w] = @ + 1]
                        /\ \E t \in ThrowSpread :
                              item_entities' = [item_entities EXCEPT ![w] =
                                 (entity_id :> Thrown(pl, t, item_id, dropped)) @@ @]
                   ELSE UNCHANGED << next_entity_id, item_entities >>
    /\ Consume(s)
    /\ UNCHANGED << connVars, recv_count, spc, sock, world, has_player, stop_event,
                    loaderVars, kaVars, num_worlds, block_data, updated_blocks,
                    entity_collision_cache, tickVars,
                    entity_update_pause_event, codec, net >>

\* The attributes World.__init__ gives a World object.
WorldAttributes ==
    { "players", "next_entity_id", "item_entities", "block_manager",
      "use_terrain_generation", "entity_collision_cache", "entity_update_stop_event",
      "entity_update_pause_event", "entity_update_thread" }

\* The attributes the Click Container handler reads for the place of a drop:
\* world.x, world.y, world.z.
ClickSpawnReads == { "x", "y", "z" }

\* Whether the try block that spawns the drop of a Click Container gets past
\* its first statements: reading an attribute the object lacks raises
\* AttributeError, which the except of the block swallows.
ClickSpawnRuns == ClickSpawnReads \subseteq WorldAttributes

\* A Click Container body.
Click(window_id, state_id, slot, button, mode, changed_slots, carried_item) ==
    [window_id |-> window_id, state_id |-> state_id, slot |-> slot, button |-> button,
     mode |-> mode, changed_slots |-> changed_slots, carried_item |-> carried_item]

\* The cursor after `player.cursor_item = current_carried` or None.
CursorOf(carried) == IF carried[1] > 0 /\ carried[2] > 0 THEN carried ELSE << >>

\* `for slot_number, item_id, count in parsed_packet.changed_slots`: each
\* slot ends as its last entry in the list says (update_slot, or removed
\* when the entry is empty).
ApplyChangedSlots(inv, changed) ==
    LET touched == { changed[i][1] : i \in DOMAIN changed }
        last(k) == changed[CHOOSE i \in DOMAIN changed :
                              /\ changed[i][1] = k
                              /\ \A j \in DOMAIN changed : changed[j][1] = k => j <= i]
        kept == { k \in touched : last(k)[2] > 0 /\ last(k)[3] > 0 }
    IN  [k \in (DOMAIN inv \ touched) \cup kept |->
            IF k \in kept THEN << last(k)[2], last(k)[3] >> ELSE inv[k]]

\* The drop of a Click Container c for player pl: << item_id, count >> of
\* the items it takes from the cursor (mode 0, slot -999) or from the slot
\* (mode 4), << >> when it takes none.
ClickDrop(pl, c) ==
    LET inv == pl.inventory_slots
        prev == pl.cursor_item
    IN  IF c.window_id # 0 THEN << >>
        ELSE IF c.mode = 0 /\ c.slot = -999
        THEN IF prev # << >> /\ prev[1] > 0 /\ prev[2] > 0
             THEN << prev[1], Min(IF c.button = 0 THEN prev[2] ELSE 1, prev[2]) >>
             ELSE << >>
        ELSE IF c.mode = 4
        THEN IF c.slot \in DOMAIN inv /\ inv[c.slot][1] > 0 /\ inv[c.slot][2] > 0
             THEN << inv[c.slot][1], IF c.button = 0 THEN 1 ELSE inv[c.slot][2] >>
             ELSE << >>
        ELSE << >>

\* Click Container bodies a client sends: they set slots through
\* changed_slots (a stack of 3, a stack of 100, a stack of an item that is no
\* block, every slot 9 .. 44 full), take a stack to the cursor, drop the
\* cursor outside the window (button 0 and 1) and drop from slot 36 (button
\* 0 and 1).
ClickChoices ==
    << Click(0, 1, 36, 0, 0, << << 36, 14, 3 >> >>, << 0, 0 >>),
       Click(0, 1, 36, 0, 0, << << 36, 14, 100 >> >>, << 0, 0 >>),
       Click(0, 1, 36, 0, 0, << << 36, 900, 2 >> >>, << 0, 0 >>),
       Click(0, 1, 9, 0, 0, [i \in 1 .. 36 |-> << 8 + i, 200, 64 >>], << 0, 0 >>),
       Click(0, 2, 36, 0, 0, << << 36, 0, 0 >> >>, << 14, 3 >>),
       Click(0, 3, -999, 0, 0, << >>, << 0, 0 >>),
       Click(0, 3, -999, 1, 0, << >>, << 14, 2 >>),
       Click(0, 3, 36, 0, 4, << >>, << 0, 0 >>),
       Click(0, 3, 36, 1, 4, << >>, << 0, 0 >>) >>

\* Click Container (0x11).
HandleClickContainer(s) ==
    /\ AtPacket(s)
    /\ NextParser(s) = "click_container"
    /\ Next_packet(s).ok
    /\ LET w == world[s]
           pl == player[s]
           c == ClickChoices[Next_packet(s).arg]
           inv == pl.inventory_slots
           d == ClickDrop(pl, c)
           from_slot == d # << >> /\ c.mode = 4
           new_count == IF from_slot THEN inv[c.slot][2] - d[2] ELSE 0
           inv1 == IF ~from_slot THEN inv
                   ELSE IF new_count > 0 THEN update_slot(inv, c.slot, d[1], new_count)
                   ELSE update_slot(inv, c.slot, 0, 0)
           state1 == IF from_slot THEN pl.inventory_state_id + 1 ELSE pl.inventory_state_id
           slot_packet == IF from_slot
                          THEN << << "SetContainerSlot",
                                     << state1, c.slot,
                                        IF new_count > 0 THEN d[1] ELSE 0, new_count >> >> >>
                          ELSE << >>
           \* sendall(container_slot_packet) raises outside the inner try
           aborted == from_slot /\ sock[s] # "open"
           spawns == d # << >> /\ ~aborted /\ ClickSpawnRuns
           entity_id == next_entity_id[w]
           spawn_packets == IF spawns
                            THEN << << "SpawnEntity", << entity_id >> >>,
                                    << "SetEntityMetadata", << entity_id, d[1], d[2] >> >> >>
                            ELSE << >>
       IN  /\ player' = [player EXCEPT ![s] =
                 IF aborted
                 THEN [pl EXCEPT !.inventory_slots = inv1, !.inventory_state_id = state1]
                 ELSE [pl EXCEPT
                         !.cursor_item = CursorOf(c.carried_item),
                         !.inventory_slots =
                             IF c.window_id = 0 THEN ApplyChangedSlots(inv1, c.changed_slots)
                             ELSE inv1,
                         !.inventory_state_id =
                             IF c.window_id = 0 THEN c.state_id ELSE state1]]
           /\ wire' = [wire EXCEPT ![s] = SessionSendAll(@, s, slot_packet \o spawn_packets)]
           /\ next_entity_id' = [next_entity_id EXCEPT ![w] = IF spawns THEN @ + 1 ELSE @]
           /\ IF spawns /\ sock[s] = "open"
              THEN \E t \in ThrowSpread :
                     item_entities' = [item_entities EXCEPT ![w] =
                        (entity_id :> Thrown(pl, t, d[1], d[2])) @@ @]
              ELSE UNCHANGED item_entities
    /\ Consume(s)
    /\ UNCHANGED << connVars, recv_count, spc, sock, world, has_player, stop_event,
                    loaderVars, kaVars, num_worlds, block_data, updated_blocks,
                    entity_collision_cache, tickVars,
                    entity_update_pause_event, codec, net >>

-----------------------------------------------------------------------------
(* handle_client: placing blocks *)

\* get_block_state_id_from_item_id: the first state of the block an item
\* places, -1 for None (the item is no block).
get_block_state_id_from_item_id(item_id) ==
    CASE item_id = 14 -> 14
      [] item_id = 200 -> BLOCK_WHITE_WOOL
      [] item_id = 204 -> BLOCK_YELLOW_WOOL
      [] item_id = 205 -> BLOCK_GRASS_BLOCK
      [] item_id = 212 -> BLOCK_DIRT
      [] OTHER -> -1

\* face_offsets.get(face, (0, 1, 0))
face_offsets(face) ==
    CASE face = 0 -> << 0, -1, 0 >>
      [] face = 1 -> << 0, 1, 0 >>
      [] face = 2 -> << 0, 0, -1 >>
      [] face = 3 -> << 0, 0, 1 >>
      [] face = 4 -> << -1, 0, 0 >>
      [] face = 5 -> << 1, 0, 0 >>
      [] OTHER -> << 0, 1, 0 >>

\* Use Item On bodies a client sends: << hand, location, face >>.
UseChoices == << << 0, << 0, 64, 0 >>, 1 >>, << 0, << 0, 64, 0 >>, 5 >> >>

\* Use Item On (0x3F): the handler takes one item from the held slot and sends
\* Set Container Slot, and only then looks up the block state of the item.
HandleUseItemOn(s) ==
    /\ AtPacket(s)
    /\ NextParser(s) = "use_item_on"
    /\ Next_packet(s).ok
    /\ LET w == world[s]
           pl == player[s]
           u == UseChoices[Next_packet(s).arg]
           inv == pl.inventory_slots
           slot_idx == IF u[1] = 0 THEN 36 + pl.selected_hotbar_slot ELSE 45
           has == slot_idx \in DOMAIN inv /\ inv[slot_idx][1] > 0 /\ inv[slot_idx][2] > 0
           item_id == inv[slot_idx][1]
           new_count == inv[slot_idx][2] - 1
           off == face_offsets(u[3])
           place == << u[2][1] + off[1], u[2][2] + off[2], u[2][3] + off[3] >>
           block_state_id == get_block_state_id_from_item_id(item_id)
           taken == [pl EXCEPT
                       !.inventory_slots =
                           IF new_count > 0 THEN update_slot(inv, slot_idx, item_id, new_count)
                           ELSE update_slot(inv, slot_idx, 0, 0),
                       !.inventory_state_id = @ + 1]
           slot_packet == << "SetContainerSlot",
                             << pl.inventory_state_id + 1, slot_idx,
                                IF new_count > 0 THEN item_id ELSE 0, new_count >> >>
       IN  IF ~has
           THEN /\ Consume(s)
                /\ UNCHANGED << player, wire, block_data, updated_blocks, gravity_watch >>
           ELSE IF sock[s] # "open"
           THEN \* sendall(container_slot_packet) raises
                /\ player' = [player EXCEPT ![s] = taken]
                /\ Consume(s)
                /\ UNCHANGED << wire, block_data, updated_blocks, gravity_watch >>
           ELSE IF block_state_id = -1
           THEN \* `continue`: the offset is not advanced
                /\ player' = [player EXCEPT ![s] = taken]
                /\ wire' = [wire EXCEPT ![s] =
                      SessionSend(@, s, slot_packet[1], slot_packet[2])]
                /\ UNCHANGED << buffer, block_data, updated_blocks, gravity_watch >>
           ELSE /\ player' = [player EXCEPT ![s] = taken]
                /\ block_data' = [block_data EXCEPT ![w] =
                                     set_block_data(@, place, block_state_id)]
                /\ updated_blocks' = [updated_blocks EXCEPT ![w] = @ \cup {place}]
                /\ gravity_watch' = [gravity_watch EXCEPT ![w].new = @ \cup Frozen(w, place)]
                /\ wire' = [wire EXCEPT ![s] =
                      SessionSendAll(@, s, << slot_packet,
                                              << "BlockUpdate", place >> >>)]
                /\ Consume(s)
    /\ UNCHANGED << connVars, recv_count, spc, sock, world, has_player, stop_event,
                    loaderVars, kaVars, num_worlds, item_entities, next_entity_id,
                    entity_collision_cache, tpc, tlocal,
                    entity_update_pause_event, codec, net >>

-----------------------------------------------------------------------------
(* World.check_line_intersects_solid_block *)

Sgn(n) == IF n >= 0 THEN 1 ELSE -1

\* A parameter t of the segment as a fraction << numerator, denominator >>
\* with denominator >= 0; denominator 0 is float('inf').
FracLess(a, b) == a[2] # 0 /\ (b[2] = 0 \/ a[1] * b[2] < b[1] * a[2])

FracLeq(a, b) == a[1] * b[2] <= b[1] * a[2]

\* line_segment_intersects_aabb (the slab method) for the unit box of block
\* blk; A and B in units.
line_segment_intersects_aabb(A, B, blk) ==
    LET d == [i \in 1 .. 3 |-> B[i] - A[i]]
        lo == [i \in 1 .. 3 |-> blk[i] * Unit]
        hi == [i \in 1 .. 3 |-> (blk[i] + 1) * Unit]
        Inside(i) == lo[i] <= A[i] /\ A[i] < hi[i]
        moving == { i \in 1 .. 3 : d[i] # 0 }
        t1(i) == << Min((lo[i] - A[i]) * Sgn(d[i]), (hi[i] - A[i]) * Sgn(d[i])), Abs(d[i]) >>
        t2(i) == << Max((lo[i] - A[i]) * Sgn(d[i]), (hi[i] - A[i]) * Sgn(d[i])), Abs(d[i]) >>
        lows == { << 0, 1 >> } \cup { t1(i) : i \in moving }
        highs == { << 1, 1 >> } \cup { t2(i) : i \in moving }
    IN  /\ \A i \in (1 .. 3) \ moving : Inside(i)
        /\ \A a \in lows : \A b \in highs : FracLeq(a, b)

\* next_x_boundary, next_y_boundary, next_z_boundary when the traversal is
\* in block cur: the initial value plus one delta per step taken on the axis.
next_boundary(A, d, cur, i) ==
    IF d[i] = 0 THEN << 0, 0 >>
    ELSE << ((cur[i] + (IF d[i] >= 0 THEN 1 ELSE 0)) * Unit - A[i]) * Sgn(d[i]), Abs(d[i]) >>

\* The `while steps < max_steps` loop of the DDA from block cur on.
RECURSIVE dda_walk(_, _, _, _, _, _)
dda_walk(bd, A, B, cur, steps, checked) ==
    LET d == [i \in 1 .. 3 |-> B[i] - A[i]]
        start == [i \in 1 .. 3 |-> Floor(A[i])]
        end == [i \in 1 .. 3 |-> Floor(B[i])]
        max_steps == Abs(end[1] - start[1]) + Abs(end[2] - start[2])
                     + Abs(end[3] - start[3]) + 1
        tx == next_boundary(A, d, cur, 1)
        ty == next_boundary(A, d, cur, 2)
        tz == next_boundary(A, d, cur, 3)
        axis == IF FracLess(tx, ty) /\ FracLess(tx, tz) THEN 1
                ELSE IF FracLess(ty, tz) THEN 2 ELSE 3
        nxt == [cur EXCEPT ![axis] = @ + Sgn(d[axis])]
        past == \E i \in 1 .. 3 : \/ Sgn(d[i]) > 0 /\ nxt[i] > end[i]
                                  \/ Sgn(d[i]) < 0 /\ nxt[i] < end[i]
        seen == checked \cup { << cur[1], cur[2], cur[3] >> }
    IN  IF steps >= max_steps THEN [hit |-> FALSE, blocks_checked |-> checked]
        ELSE IF is_block_solid(bd, << cur[1], cur[2], cur[3] >>)
                /\ line_segment_intersects_aabb(A, B, cur)
             THEN [hit |-> TRUE, blocks_checked |-> seen]
        ELSE IF past THEN [hit |-> FALSE, blocks_checked |-> seen]
        ELSE dda_walk(bd, A, B, nxt, steps + 1, seen)

\* check_line_intersects_solid_block(line_start, line_end, return_debug=True):
\* the answer and the positions in debug_info['blocks_checked'].
check_line_intersects_solid_block(bd, A, B) ==
    dda_walk(bd, A, B, [i \in 1 .. 3 |-> Floor(A[i])], 0, {})

-----------------------------------------------------------------------------
(* World.update_item_entities, the entity update thread *)

\* GRAVITY = -0.04 blocks per tick.
GRAVITY == -((4 * Unit) \div 100)

\* v * DRAG with DRAG = 0.98, to the resolution of the fixed point.
Drag(v) == IF v >= 0 THEN (v * 98) \div 100 ELSE -(((-v) * 98) \div 100)

\* 0.01 blocks, the distance from the block edge an entity is pushed to.
Epsilon == Unit \div 100

\* An entry of entity_collision_cache.
CacheEntry(blocks_checked, result, position, velocity, gravity_disabled) ==
    [blocks_checked |-> blocks_checked, result |-> result, position |-> position,
     velocity |-> velocity, gravity_disabled |-> gravity_disabled]

\* dict.get(key): << >> for None, << value >> otherwise.
Get(d, key) == IF key \in DOMAIN d THEN << d[key] >> ELSE << >>

\* Gravity is applied whether or not the entity is frozen.
apply_gravity_drag_Always(e, cache) ==
    [e EXCEPT !.velocity_x = Drag(@), !.velocity_y = Drag(@ + GRAVITY),
              !.velocity_z = Drag(@)]

\* Gravity and drag on entity e, given the cache entry read for it.
apply_gravity_drag(e, cache) ==
    LET gravity_disabled == cache # << >> /\ cache[1].gravity_disabled
        vy == IF gravity_disabled THEN e.velocity_y ELSE e.velocity_y + GRAVITY
    IN  [e EXCEPT !.velocity_x = Drag(@), !.velocity_y = Drag(vy), !.velocity_z = Drag(@)]

\* The horizontal check in X: the entity afterwards.
clamp_x(bd, e) ==
    LET fx == PyInt(e.x)
        fy == PyInt(e.y)
        fz == PyInt(e.z)
        check_x == PyInt(e.x + e.velocity_x)
    IN  IF e.velocity_x # 0 /\ check_x # fx
           /\ (is_block_solid(bd, << check_x, fy, fz >>)
               \/ is_block_solid(bd, << check_x, fy + 1, fz >>))
        THEN \* velocity_x is 0.0 by the time its sign is looked at
             [e EXCEPT !.velocity_x = 0, !.x = fx * Unit + Epsilon]
        ELSE e

\* The horizontal check in Z; the floors were taken before the X check.
clamp_z(bd, e, fx, fy, fz) ==
    LET check_z == PyInt(e.z + e.velocity_z)
    IN  IF e.velocity_z # 0 /\ check_z # fz
           /\ (is_block_solid(bd, << fx, fy, check_z >>)
               \/ is_block_solid(bd, << fx, fy + 1, check_z >>))
        THEN [e EXCEPT !.velocity_z = 0, !.z = fz * Unit + Epsilon]
        ELSE e


\* for entity_id, item_entity in list(self.item_entities.items())
\* The gate is not looked at.
gate_open_Always(pause_event) == TRUE

\* self.entity_update_pause_event.wait() returns when the Event is set.
gate_open(pause_event) == pause_event

\* The ItemEntity object behind a list entry: the one the dict holds, or the
\* loop's own reference once the entity has been removed from the dict.
Object(ents, objs, id) == IF id \in DOMAIN ents THEN ents[id] ELSE objs[id]

TickStart(t) ==
    LET w == WorldOf(t) IN
    /\ IF t \in WorldIds
       THEN tpc[t] = "wait" /\ gate_open(entity_update_pause_event[w])
       ELSE tpc[t] = "none" /\ TickStepper(w) = t /\ w <= num_worlds
    /\ tlocal' = [tlocal EXCEPT ![t].todo = KeysAscending(DOMAIN item_entities[w]),
                                ![t].objs = item_entities[w]]
    /\ gravity_watch' = [gravity_watch EXCEPT ![w].due = gravity_watch[w].new,
                                              ![w].new = {}]
    /\ tpc' = [tpc EXCEPT ![t] = "entity"]
    /\ UNCHANGED << connVars, buffer, recv_count, spc, sock, wire, world, has_player,
                    keep_alive_thread, stop_event, player, loaderVars, kpc, ka_sent,
                    worldVars,
                    entity_update_pause_event, codec, net >>

\* The entity object as the session threads see it: the entry of
\* item_entities, when the entity has not been removed meanwhile.
Publish(ents, id, e) == IF id \in DOMAIN ents THEN [ents EXCEPT ![id] = e] ELSE ents

\* One turn of the loop, up to the call of get_updated_blocks: gravity and
\* drag, the forced chunk load, the horizontal checks, and the snapshot of
\* the mutated set.
TickEntity(t) ==
    LET w == WorldOf(t) IN
    /\ tpc[t] = "entity"
    /\ tlocal[t].todo # << >>
    /\ LET id == Head(tlocal[t].todo)
           e0 == Object(item_entities[w], tlocal[t].objs, id)
           cache == Get(entity_collision_cache[w], id)
           e1 == apply_gravity_drag(e0, cache)
           fx == PyInt(e1.x)
           fy == PyInt(e1.y)
           fz == PyInt(e1.z)
           chunk == << fx \div 16, fz \div 16 >>
           bd == IF is_chunk_loaded(block_data[w], chunk) THEN block_data[w]
                 ELSE load_chunk_blocks(block_data[w], chunk, 64, UseTerrain)
           e3 == clamp_z(bd, clamp_x(bd, e1), fx, fy, fz)
           ref == IF cache # << >> /\ cache[1].blocks_checked # {}
                  THEN get_updated_blocks(updated_blocks[w])
                  ELSE tlocal[t].ref
       IN  IF e0.x = NaN \/ e0.y = NaN \/ e0.z = NaN
           THEN \* int(item_entity.x) raises ValueError; nothing on the way out
                \* of update_item_entities and _entity_update_worker catches it
                /\ item_entities' = [item_entities EXCEPT ![w] = Publish(@, id, e1)]
                /\ tlocal' = [tlocal EXCEPT ![t].objs[id] = e1]
                /\ tpc' = [tpc EXCEPT ![t] = "dead"]
                /\ UNCHANGED block_data
           ELSE /\ block_data' = [block_data EXCEPT ![w] = bd]
                /\ item_entities' = [item_entities EXCEPT ![w] = Publish(@, id, e3)]
                /\ tlocal' = [tlocal EXCEPT ![t].objs[id] = e3, ![t].cache = cache,
                                            ![t].ref = ref]
                /\ tpc' = [tpc EXCEPT ![t] = "check"]
    /\ UNCHANGED << connVars, buffer, recv_count, spc, sock, wire, world, has_player,
                    keep_alive_thread, stop_event, player, loaderVars, kpc, ka_sent,
                    num_worlds, updated_blocks, next_entity_id, entity_collision_cache,
                    gravity_watch,
                    entity_update_pause_event, codec, net >>

\* The rest of the turn: the cache test, the collision check, the move and
\* the cache update.
TickEntityRest(t) ==
    LET w == WorldOf(t) IN
    /\ tpc[t] = "check"
    /\ LET id == Head(tlocal[t].todo)
           e == Object(item_entities[w], tlocal[t].objs, id)
           cache == tlocal[t].cache
           old == << e.x, e.y, e.z >>
           vel == << e.velocity_x, e.velocity_y, e.velocity_z >>
           nxt == << e.x + e.velocity_x, e.y + e.velocity_y, e.z + e.velocity_z >>
           blocks_updated ==
               /\ cache # << >>
               /\ cache[1].blocks_checked \cap SetValue(tlocal[t].ref, updated_blocks[w]) # {}
           needs_recheck ==
               ~(/\ cache # << >>
                 /\ cache[1].position = old
                 /\ cache[1].velocity = vel
                 /\ ~blocks_updated)
           found == IF needs_recheck
                    THEN check_line_intersects_solid_block(block_data[w], old, nxt)
                    ELSE [hit |-> cache[1].result, blocks_checked |-> {}]
           e2 == IF found.hit
                 THEN [e EXCEPT !.velocity_x = 0, !.velocity_y = 0, !.velocity_z = 0]
                 ELSE [e EXCEPT !.x = nxt[1], !.y = nxt[2], !.z = nxt[3]]
       IN  /\ item_entities' = [item_entities EXCEPT ![w] = Publish(@, id, e2)]
           /\ entity_collision_cache' = [entity_collision_cache EXCEPT ![w] =
                 IF found.hit
                 THEN IF needs_recheck
                      THEN (id :> CacheEntry(found.blocks_checked, TRUE, old,
                                             << 0, 0, 0 >>, TRUE)) @@ @
                      ELSE @
                 ELSE Pop(@, id)]
           /\ tlocal' = [tlocal EXCEPT ![t].objs[id] = e2, ![t].todo = Tail(@)]
           \* cache['gravity_disabled'] = False, before the entry is replaced
           /\ gravity_watch' =
                 IF blocks_updated /\ cache[1].gravity_disabled
                 THEN [gravity_watch EXCEPT ![w].due = @ \ {id}, ![w].new = @ \ {id}]
                 ELSE gravity_watch
    /\ tpc' = [tpc EXCEPT ![t] = "entity"]
    /\ UNCHANGED << connVars, buffer, recv_count, spc, sock, wire, world, has_player,
                    keep_alive_thread, stop_event, player, loaderVars, kpc, ka_sent,
                    num_worlds, block_data, updated_blocks, next_entity_id,
                    entity_update_pause_event, codec, net >>

\* self.block_manager.clear_updated_blocks() and the return.
TickEnd(t) ==
    LET w == WorldOf(t) IN
    /\ tpc[t] = "entity"
    /\ tlocal[t].todo = << >>
    /\ updated_blocks' = [updated_blocks EXCEPT ![w] = clear_updated_blocks(@)]
    /\ gravity_watch' = [gravity_watch EXCEPT ![w].missed = @ \cup gravity_watch[w].due,
                                              ![w].due = {}]
    /\ tpc' = [tpc EXCEPT ![t] = IF t \in WorldIds THEN "wait" ELSE "none"]
    /\ UNCHANGED << connVars, buffer, recv_count, spc, sock, wire, world, has_player,
                    keep_alive_thread, stop_event, player, loaderVars, kpc, ka_sent,
                    num_worlds, block_data, item_entities, next_entity_id,
                    entity_collision_cache, tlocal,
                    entity_update_pause_event, codec, net >>

\* pickup_delay has passed for entity id of world w.
PickupDelayPasses(w, id) ==
    /\ id \in DOMAIN item_entities[w]
    /\ ~item_entities[w][id].ripe
    /\ item_entities' = [item_entities EXCEPT ![w][id].ripe = TRUE]
    /\ UNCHANGED << connVars, buffer, recv_count, spc, sock, wire, world, has_player,
                    keep_alive_thread, stop_event, player, loaderVars, kpc, ka_sent,
                    num_worlds, block_data, updated_blocks, next_entity_id,
                    entity_collision_cache, tickVars,
                    entity_update_pause_event, codec, net >>

TickStep(w) ==
    \/ TickStart(w)
    \/ TickEntity(w)
    \/ TickEntityRest(w)
    \/ TickEnd(w)

-----------------------------------------------------------------------------
(* One connection: the session thread, its chunk worker and its keep-alive *)
(* thread                                                                  *)

SessionStep(s) ==
    \/ HandleHandshake(s)
    \/ HandleLoginStart(s)
    \/ HandleLoginAcknowledged(s)
    \/ HandleClientInformation(s)
    \/ HandleKnownPacks(s)
    \/ HandleAckFinish(s)
    \/ HandleUnknown(s)
    \/ HandleParseError(s)
    \/ BootSend(s)
    \/ BootQueueChunks(s)
    \/ BootStartKeepAlive(s)
    \/ HandleSetPosition(s)
    \/ HandleNoEffect(s)
    \/ HandleSetHeldItem(s)
    \/ HandleDig(s)
    \/ SessionClose(s)

WorkerStep(s) ==
    \/ WorkerGet(s)
    \/ WorkerChunk(s)
    \/ WorkerSendRest(s)
    \/ WorkerCenter(s)
    \/ WorkerExit(s)

KeepAliveStep(s) ==
    \/ KeepAliveSend(s)
    \/ KeepAliveExit(s)

Next ==
    \/ \E p \in ClientPackets : ClientSend(1, p)
    \/ SocketBreak(1)
    \/ SessionStep(1)
    \/ WorkerStep(1)
    \/ KeepAliveStep(1)

Spec == Init /\ [][Next]_vars


-----------------------------------------------------------------------------
(* A client that follows the protocol, and the world it plays in *)

\* Play packets the client sends after it has logged in.
MaxPlay == 2

\* Handshake (login), Login Start, Login Acknowledged, Client Information,
\* Known Packs, Acknowledge Finish Configuration.
LoginScript ==
    << Packet(ID_HANDSHAKE, 2, TRUE), Packet(0, 0, TRUE), Packet(ID_ACK, 0, TRUE),
       Packet(0, 0, TRUE), Packet(ID_KNOWN_PACKS, 0, TRUE), Packet(ID_ACK, 0, TRUE) >>

\* Finished digging at each of the dig targets.
DigPackets == { Packet(ID_PLAYER_ACTION, i, TRUE) : i \in 1 .. Len(DigTargets) }

\* The client sends the next packet of the login, then Play packets from ps.
ScriptedSend(s, ps) ==
    /\ sock[s] = "open"
    /\ buffer[s] = << >>
    /\ IF recv_count[s] < Len(LoginScript)
       THEN buffer' = [buffer EXCEPT ![s] = << LoginScript[recv_count[s] + 1] >>]
       ELSE /\ recv_count[s] < Len(LoginScript) + MaxPlay
            /\ connection_state[s] = PLAY
            /\ \E p \in ps : buffer' = [buffer EXCEPT ![s] = << p >>]
    /\ recv_count' = [recv_count EXCEPT ![s] = @ + 1]
    /\ UNCHANGED << connVars, spc, sock, wire, world, has_player, stop_event, player,
                    loaderVars, kaVars, worldVars, tickVars,
                    entity_update_pause_event, codec, net >>

NextWorld ==
    \/ ScriptedSend(1, DigPackets)
    \/ HandleHandshake(1)
    \/ HandleLoginStart(1)
    \/ HandleLoginAcknowledged(1)
    \/ HandleClientInformation(1)
    \/ HandleKnownPacks(1)
    \/ HandleAckFinish(1)
    \/ BootSend(1)
    \/ BootQueueChunks(1)
    \/ BootStartKeepAlive(1)
    \/ HandleDig(1)
    \/ WorkerGet(1)
    \/ WorkerChunk(1)
    \/ WorkerSendRest(1)
    \/ WorkerCenter(1)
    \/ TickStep(1)

SpecWorld == Init /\ [][NextWorld]_vars


-----------------------------------------------------------------------------
(* Two clients *)

\* The first client digs at the first dig target; the second only logs in.
PlayPacketsOf(s) == IF s = 1 THEN { Packet(ID_PLAYER_ACTION, 1, TRUE) } ELSE {}

NextTwo ==
    \E s \in Sessions :
        \/ ScriptedSend(s, PlayPacketsOf(s))
        \/ HandleHandshake(s)
        \/ HandleLoginStart(s)
        \/ HandleLoginAcknowledged(s)
        \/ HandleClientInformation(s)
        \/ HandleKnownPacks(s)
        \/ HandleAckFinish(s)
        \/ BootSend(s)
        \/ BootQueueChunks(s)
        \/ BootStartKeepAlive(s)
        \/ HandleDig(s)
        \/ WorkerGet(s)
        \/ WorkerChunk(s)
        \/ WorkerSendRest(s)
        \/ WorkerCenter(s)

SpecTwo == Init /\ [][NextTwo]_vars

-----------------------------------------------------------------------------
(* One client and its inventory *)

\* How many Play packets the client of the inventory script sends.
MaxInv == 4

\* Click Container, Player Action drops, Set Held Item, Set Player Position
\* and Use Item On.
InvPackets ==
    { Packet(ID_CLICK_CONTAINER, i, TRUE) : i \in 1 .. Len(ClickChoices) }
    \cup { Packet(ID_PLAYER_ACTION, -3, TRUE), Packet(ID_PLAYER_ACTION, -4, TRUE) }
    \cup { Packet(ID_SET_HELD_ITEM, 1, TRUE) }
    \cup { Packet(ID_SET_POSITION, 1, TRUE) }
    \cup { Packet(ID_USE_ITEM_ON, i, TRUE) : i \in 1 .. Len(UseChoices) }

\* The client sends the next packet of the login, then inventory packets.
InvSend(s) ==
    /\ sock[s] = "open"
    /\ buffer[s] = << >>
    /\ IF recv_count[s] < Len(LoginScript)
       THEN buffer' = [buffer EXCEPT ![s] = << LoginScript[recv_count[s] + 1] >>]
       ELSE /\ recv_count[s] < Len(LoginScript) + MaxInv
            /\ connection_state[s] = PLAY
            /\ \E p \in InvPackets : buffer' = [buffer EXCEPT ![s] = << p >>]
    /\ recv_count' = [recv_count EXCEPT ![s] = @ + 1]
    /\ UNCHANGED << connVars, spc, sock, wire, world, has_player, stop_event, player,
                    loaderVars, kaVars, worldVars, tickVars,
                    entity_update_pause_event, codec, net >>

NextInv ==
    \/ InvSend(1)
    \/ HandleHandshake(1)
    \/ HandleLoginStart(1)
    \/ HandleLoginAcknowledged(1)
    \/ HandleClientInformation(1)
    \/ HandleKnownPacks(1)
    \/ HandleAckFinish(1)
    \/ BootSend(1)
    \/ BootQueueChunks(1)
    \/ BootStartKeepAlive(1)
    \/ HandleClickContainer(1)
    \/ HandleDrop(1)
    \/ HandleSetHeldItem(1)
    \/ HandleSetPosition(1)
    \/ HandleUseItemOn(1)
    \/ \E id \in DOMAIN item_entities[1] : PickupDelayPasses(1, id)
    \/ SocketBreak(1)

SpecInv == Init /\ [][NextInv]_vars

-----------------------------------------------------------------------------
(* A client that drops an item below the world *)

\* How many blocks outside the vertical range of the world the ticks follow
\* an entity.
MaxDrift == 8

\* The vertical range of the world, in units.
WorldBottom == -(64 * Unit)

WorldTop == 319 * Unit

\* The login, a stack of item 14 put in slot 36, a position report (y = -70,
\* or x not a number) and the drop of the stack.
VoidScripts ==
    { LoginScript \o << Packet(ID_CLICK_CONTAINER, 1, TRUE), Packet(ID_SET_POSITION, i, TRUE),
                        Packet(ID_PLAYER_ACTION, -3, TRUE) >> : i \in {5, 6} }

\* The client sends the next packet of one of the scripts.
VoidSend(s) ==
    /\ sock[s] = "open"
    /\ buffer[s] = << >>
    /\ \E script \in VoidScripts :
          /\ recv_count[s] < Len(script)
          /\ buffer' = [buffer EXCEPT ![s] = << script[recv_count[s] + 1] >>]
    /\ recv_count' = [recv_count EXCEPT ![s] = @ + 1]
    /\ UNCHANGED << connVars, spc, sock, wire, world, has_player, stop_event, player,
                    loaderVars, kaVars, worldVars, tickVars,
                    entity_update_pause_event, codec, net >>

\* No entity of world w is further than MaxDrift blocks outside the range.
WithinDrift(w) ==
    \A id \in DOMAIN item_entities[w] :
        /\ item_entities[w][id].y >= WorldBottom - MaxDrift * Unit
        /\ item_entities[w][id].y <= WorldTop + MaxDrift * Unit

NextVoid ==
    \/ VoidSend(1)
    \/ HandleHandshake(1)
    \/ HandleLoginStart(1)
    \/ HandleLoginAcknowledged(1)
    \/ HandleClientInformation(1)
    \/ HandleKnownPacks(1)
    \/ HandleAckFinish(1)
    \/ BootSend(1)
    \/ BootQueueChunks(1)
    \/ BootStartKeepAlive(1)
    \/ HandleClickContainer(1)
    \/ HandleSetPosition(1)
    \/ HandleDrop(1)
    \/ WithinDrift(1) /\ TickStep(1)

SpecVoid == Init /\ [][NextVoid]_vars

-----------------------------------------------------------------------------
(* Item entities thrown along the axes next to a block *)

\* Entities one world is given.
MaxSpawn == 1

\* Where a thrown item starts, 0.2 above the ground of the spawn chunk, in
\* the middle of a block or 0.05 from its edge, and its horizontal velocity:
\* calculate_drop_velocity for a player who looks east, west, south or north,
\* and a slow drift.
ProbeEntities ==
    { ItemEntity(x, 65 * Unit + Unit \div 5, z, v[1], 0, v[2], 14, 1) :
         x \in { Unit \div 2, Unit - Unit \div 20, 2 * Unit + Unit \div 20 },
         z \in { Unit \div 2, Unit - Unit \div 20, 2 * Unit + Unit \div 20 },
         v \in { << Unit \div 5, 0 >>, << -(Unit \div 5), 0 >>, << 0, Unit \div 5 >>,
                 << 0, -(Unit \div 5) >>, << Unit \div 20, 0 >> } }

\* world.item_entities[entity_id] = ItemEntity(...), as the drop handlers do.
PlaceEntity(w, e) ==
    /\ w <= num_worlds
    /\ next_entity_id[w] < 1000 + MaxSpawn
    /\ item_entities' = [item_entities EXCEPT ![w] = (next_entity_id[w] :> e) @@ @]
    /\ next_entity_id' = [next_entity_id EXCEPT ![w] = @ + 1]
    /\ UNCHANGED << connVars, buffer, recv_count, spc, sock, wire, world, has_player,
                    keep_alive_thread, stop_event, player, loaderVars, kpc, ka_sent,
                    num_worlds, block_data, updated_blocks, entity_collision_cache,
                    tickVars, entity_update_pause_event, codec, net >>

NextPush ==
    \/ ScriptedSend(1, {})
    \/ HandleHandshake(1)
    \/ HandleLoginStart(1)
    \/ HandleLoginAcknowledged(1)
    \/ HandleClientInformation(1)
    \/ HandleKnownPacks(1)
    \/ HandleAckFinish(1)
    \/ \E e \in ProbeEntities : PlaceEntity(1, e)
    \/ TickStep(1)

SpecPush == Init /\ [][NextPush]_vars

-----------------------------------------------------------------------------
(* The inspector pausing, resuming and stepping the entity updates *)

\* The inspector sends one request at a time: none while step_entity_tick runs.
InspectorIdle(w) == tpc[TickStepper(w)] = "none"

\* Every entity of world w lies on a cached collision.
AllResting(w) ==
    \A id \in DOMAIN item_entities[w] :
        /\ id \in DOMAIN entity_collision_cache[w]
        /\ entity_collision_cache[w][id].result
        /\ entity_collision_cache[w][id].gravity_disabled

\* World.pause_entity_updates
PauseEntityUpdates(w) ==
    /\ w <= num_worlds
    /\ InspectorIdle(w)
    /\ entity_update_pause_event' = [entity_update_pause_event EXCEPT ![w] = FALSE]
    /\ UNCHANGED << connVars, buffer, recv_count, spc, sock, wire, world, has_player,
                    keep_alive_thread, stop_event, player, loaderVars, kpc, ka_sent,
                    worldVars, tickVars, codec, net >>

\* World.resume_entity_updates
ResumeEntityUpdates(w) ==
    /\ w <= num_worlds
    /\ InspectorIdle(w)
    /\ entity_update_pause_event' = [entity_update_pause_event EXCEPT ![w] = TRUE]
    /\ UNCHANGED << connVars, buffer, recv_count, spc, sock, wire, world, has_player,
                    keep_alive_thread, stop_event, player, loaderVars, kpc, ka_sent,
                    worldVars, tickVars, codec, net >>

\* World.step_entity_tick: update_item_entities(delta_time=0.05) on the
\* thread of the caller.  The inspector asks for a step between two steps of
\* the entity update thread, and with the gate open when the entities of the
\* world have come to rest.
StepEntityTick(w) ==
    /\ InspectorIdle(w) =>
          /\ tpc[w] = "wait"
          /\ ~entity_update_pause_event[w] \/ AllResting(w)
    /\ TickStep(TickStepper(w))

\* The login, a stack of item 14 put in slot 36, a position report from the
\* middle of a block of the spawn chunk and the drop of the stack.
PauseScript ==
    LoginScript \o << Packet(ID_CLICK_CONTAINER, 1, TRUE), Packet(ID_SET_POSITION, 4, TRUE),
                      Packet(ID_PLAYER_ACTION, -3, TRUE) >>

\* The client sends the next packet of the script.
PauseSend(s) ==
    /\ sock[s] = "open"
    /\ buffer[s] = << >>
    /\ recv_count[s] < Len(PauseScript)
    /\ buffer' = [buffer EXCEPT ![s] = << PauseScript[recv_count[s] + 1] >>]
    /\ recv_count' = [recv_count EXCEPT ![s] = @ + 1]
    /\ UNCHANGED << connVars, spc, sock, wire, world, has_player, stop_event, player,
                    loaderVars, kaVars, worldVars, tickVars,
                    entity_update_pause_event, codec, net >>

NextPause ==
    \/ PauseSend(1)
    \/ HandleHandshake(1)
    \/ HandleLoginStart(1)
    \/ HandleLoginAcknowledged(1)
    \/ HandleClientInformation(1)
    \/ HandleKnownPacks(1)
    \/ HandleAckFinish(1)
    \/ BootSend(1)
    \/ BootQueueChunks(1)
    \/ BootStartKeepAlive(1)
    \/ HandleClickContainer(1)
    \/ HandleSetPosition(1)
    \/ HandleDrop(1)
    \/ TickStep(1)
    \/ PauseEntityUpdates(1)
    \/ ResumeEntityUpdates(1)
    \/ StepEntityTick(1)

SpecPause == Init /\ [][NextPause]_vars

\* The entity update thread gets to run (it is a thread of its own).
SpecPauseFair == SpecPause /\ WF_vars(TickStep(1))

-----------------------------------------------------------------------------
(* A pickup while the entity update thread is at work *)

\* The client logs in, takes a stack on its cursor, stands next to the
\* origin, throws the held stack and reports its position again.
PickupScript ==
    PauseScript \o << Packet(ID_SET_POSITION, 4, TRUE) >>

\* The client sends the next packet of the script.
PickupSend(s) ==
    /\ sock[s] = "open"
    /\ buffer[s] = << >>
    /\ recv_count[s] < Len(PickupScript)
    /\ buffer' = [buffer EXCEPT ![s] = << PickupScript[recv_count[s] + 1] >>]
    /\ recv_count' = [recv_count EXCEPT ![s] = @ + 1]
    /\ UNCHANGED << connVars, spc, sock, wire, world, has_player, stop_event, player,
                    loaderVars, kaVars, worldVars, tickVars,
                    entity_update_pause_event, codec, net >>

NextPickup ==
    \/ PickupSend(1)
    \/ HandleHandshake(1)
    \/ HandleLoginStart(1)
    \/ HandleLoginAcknowledged(1)
    \/ HandleClientInformation(1)
    \/ HandleKnownPacks(1)
    \/ HandleAckFinish(1)
    \/ BootSend(1)
    \/ BootQueueChunks(1)
    \/ BootStartKeepAlive(1)
    \/ HandleSetPosition(1)
    \/ HandleClickContainer(1)
    \/ HandleDrop(1)
    \/ TickStep(1)
    \/ \E id \in DOMAIN item_entities[1] : PickupDelayPasses(1, id)

SpecPickup == Init /\ [][NextPickup]_vars


-----------------------------------------------------------------------------
(* The ChunkLoader of one session, called directly *)

\* How many load messages are queued after the one of the bootstrap.
MaxLoads == 2

\* The lists and centers queue_chunks is called with.
ProbeLoads ==
    { [chunks |-> << << 1, 1 >>, << 0, 0 >>, << 1, 0 >>, << 0, -1 >> >>, center |-> << 0, 0 >>],
      [chunks |-> << << 2, 1 >>, << 2, 0 >>, << 1, 1 >> >>, center |-> << 1, 0 >>] }

\* The worker's Set Center Chunk packets on the wire of s.
WorkerCenters(s) ==
    { i \in 1 .. Len(wire[s]) : wire[s][i].name = "SetCenterChunk" /\ wire[s][i].by = "worker" }

\* The load messages session s has queued, in hand or done.
LoadsQueued(s) ==
    Cardinality({ i \in 1 .. Len(chunk_queue[s]) : chunk_queue[s][i].action = "load" })
    + (IF wpc[s] \in {"chunk", "sending", "center"} THEN 1 ELSE 0)
    + Cardinality(WorkerCenters(s))

\* ChunkLoader.queue_chunks(chunks, center_chunk)
QueueChunks(s, chunks, center_chunk) ==
    /\ has_loader[s]
    /\ spc[s] = "read"
    /\ sock[s] = "open"
    /\ LoadsQueued(s) < 1 + MaxLoads
    /\ chunk_queue' = [chunk_queue EXCEPT ![s] =
          Append(@, [action |-> "load", chunks |-> chunks, center |-> center_chunk])]
    /\ UNCHANGED << connVars, buffer, recv_count, spc, sock, wire, world, has_player,
                    stop_event, player, has_loader, socket_lock, wpc, wjob, kaVars,
                    worldVars, tickVars,
                    entity_update_pause_event, codec, net >>

NextLoader ==
    \/ ScriptedSend(1, {})
    \/ HandleHandshake(1)
    \/ HandleLoginStart(1)
    \/ HandleLoginAcknowledged(1)
    \/ HandleClientInformation(1)
    \/ HandleKnownPacks(1)
    \/ HandleAckFinish(1)
    \/ BootSend(1)
    \/ BootQueueChunks(1)
    \/ BootStartKeepAlive(1)
    \/ \E m \in ProbeLoads : QueueChunks(1, m.chunks, m.center)
    \/ WorkerGet(1)
    \/ WorkerChunk(1)
    \/ WorkerSendRest(1)
    \/ WorkerCenter(1)
    \/ WorkerExit(1)
    \/ SocketBreak(1)
    \/ SessionClose(1)

SpecLoader == Init /\ [][NextLoader]_vars

-----------------------------------------------------------------------------
(* A player that crosses chunk boundaries while the chunk worker is behind *)

\* The client reports positions in the chunks (0, 0), (1, 0) and (2, 0).
MovePackets == { Packet(ID_SET_POSITION, i, TRUE) : i \in {1, 2, 7} }

NextMove ==
    \/ ScriptedSend(1, MovePackets)
    \/ HandleHandshake(1)
    \/ HandleLoginStart(1)
    \/ HandleLoginAcknowledged(1)
    \/ HandleClientInformation(1)
    \/ HandleKnownPacks(1)
    \/ HandleAckFinish(1)
    \/ BootSend(1)
    \/ BootQueueChunks(1)
    \/ BootStartKeepAlive(1)
    \/ HandleSetPosition(1)
    \/ WorkerGet(1)
    \/ WorkerChunk(1)
    \/ WorkerSendRest(1)
    \/ WorkerCenter(1)

SpecMove == Init /\ [][NextMove]_vars


-----------------------------------------------------------------------------
(* The slot packing of one Player, called directly *)

\* Item ids find_slot_for_item is asked about.
ProbeItems == {14, 200}

\* Slots of the main inventory and of the hotbar that the probes vary; every
\* other slot of 9 .. 44 holds a full stack of item 212.
ProbeSlots == {9, 35, 36, 37, 44}

\* What a probed slot holds: nothing, or a stack.
ProbeStacks == { << >>, << 14, 3 >>, << 14, 64 >>, << 200, 1 >> }

\* The inventories the probes start from.
ProbeInventories ==
    { [i \in (9 .. 44) \ { k \in ProbeSlots : f[k] = << >> } |->
          IF i \in ProbeSlots THEN f[i] ELSE << 212, 64 >>] :
      f \in [ProbeSlots -> ProbeStacks] }

InitSlots ==
    /\ InitOthers
    /\ \E inv \in ProbeInventories :
          player = [s \in Sessions |-> [NewPlayer EXCEPT !.inventory_slots = inv]]

\* The body of the pickup loop for one entity of count items of item_id,
\* without the socket.
PickUp(s, item_id, count) ==
    /\ LET st == [pl |-> player[s],
                  ents |-> (0 :> ItemEntity(0, 0, 0, 0, 0, 0, item_id, count)),
                  cache |-> << >>, sent |-> << >>]
       IN  player' = [player EXCEPT ![s] = PickupItem(st, 0).pl]
    /\ UNCHANGED << connVars, buffer, recv_count, spc, sock, wire, world, has_player,
                    stop_event, loaderVars, kaVars, worldVars, tickVars,
                    entity_update_pause_event, codec, net >>

NextSlots == \E item_id \in ProbeItems, count \in {61, 64} : PickUp(1, item_id, count)

SpecSlots == InitSlots /\ [][NextSlots]_vars

-----------------------------------------------------------------------------
(* The block manager of one World, called directly *)

\* Blocks and block state ids set_block is called with.
ProbeBlocks ==
    { << 0, 64, 0 >>, << 0, 63, 0 >>, << 0, 66, 0 >>, << 16, 64, 0 >>,
      << -1, -64, -1 >>, << 15, 319, 15 >> }

ProbeIds == { BLOCK_AIR, BLOCK_STONE }

\* Chunks load_chunk_blocks is called for.
ProbeChunks == { << 0, 0 >>, << 1, 0 >> }

\* The world block stored at index idx of the list of section `key`
\* (_calculate_block_index: idx = local_y * 256 + local_z * 16 + local_x).
block_at(key, idx) ==
    << key[1] * 16 + (idx % 16),
       get_section_y_range(key[3])[1] + (idx \div 256),
       key[2] * 16 + ((idx \div 16) % 16) >>

\* BlockManager.get_chunk_section for a resident key: the stored list.
get_chunk_section(bd, key) ==
    [idx \in 0 .. SectionSize - 1 |-> get_block(bd, block_at(key, idx))]

\* Every entry is counted, air included.
block_count_All(data) == Cardinality(DOMAIN data)

\* sum(1 for block_id in block_data if block_id != BLOCK_AIR)
block_count(data) == Cardinality({ idx \in DOMAIN data : data[idx] # BLOCK_AIR })

\* palette.index(block_id): the first position holding it, counted from 0.
palette_index(palette, block_id) ==
    (CHOOSE i \in 1 .. Len(palette) :
        /\ palette[i] = block_id
        /\ \A j \in 1 .. i - 1 : palette[j] # block_id) - 1

\* BlockManager.get_chunk_section_for_protocol
get_chunk_section_for_protocol(bd, key) ==
    IF ~Resident(bd, key)
    THEN [block_count |-> 0, palette |-> << BLOCK_AIR >>,
          palette_indices |-> [idx \in 0 .. SectionSize - 1 |-> 0]]
    ELSE LET data == get_chunk_section(bd, key)
             palette == KeysAscending({ data[idx] : idx \in DOMAIN data })
         IN  [block_count |-> block_count(data),
              palette |-> palette,
              palette_indices |-> [idx \in DOMAIN data |->
                                      palette_index(palette, data[idx])]]

\* Sections get_chunk_section_for_protocol is called for.
ProbeSections == { << 0, 0, 8 >>, << -1, -1, 0 >> }

\* World.set_block(x, y, z, block_id)
SetBlock(w, b, id) ==
    /\ block_data' = [block_data EXCEPT ![w] = set_block_data(@, b, id)]
    /\ updated_blocks' = [updated_blocks EXCEPT ![w] =
                             IF set_block_result(b) THEN @ \cup {b} ELSE @]
    /\ UNCHANGED << connVars, buffer, recv_count, spc, sock, wire, world, has_player,
                    keep_alive_thread, stop_event, player, loaderVars, kpc, ka_sent,
                    num_worlds, item_entities, next_entity_id, entity_collision_cache,
                    tickVars,
                    entity_update_pause_event, codec, net >>

\* World.load_chunk_blocks(chunk_x, chunk_z, ground_y=64)
LoadChunkBlocks(w, c) ==
    /\ block_data' = [block_data EXCEPT ![w] = load_chunk_blocks(@, c, 64, UseTerrain)]
    /\ UNCHANGED << connVars, buffer, recv_count, spc, sock, wire, world, has_player,
                    keep_alive_thread, stop_event, player, loaderVars, kpc, ka_sent,
                    num_worlds, updated_blocks, item_entities, next_entity_id,
                    entity_collision_cache, tickVars,
                    entity_update_pause_event, codec, net >>

NextBlocks ==
    \/ \E b \in ProbeBlocks, id \in ProbeIds : SetBlock(1, b, id)
    \/ \E c \in ProbeChunks : LoadChunkBlocks(1, c)

SpecBlocks == Init /\ [][NextBlocks]_vars

\* The same calls on blocks at, above and below the vertical ends of the world.
HeightBlocks ==
    { << 0, 319, 0 >>, << 0, 320, 0 >>, << 0, 336, 0 >>, << 0, -64, 0 >>, << 0, -65, 0 >> }

NextHeights ==
    \/ \E b \in HeightBlocks, id \in ProbeIds : SetBlock(1, b, id)
    \/ LoadChunkBlocks(1, << 0, 0 >>)

SpecHeights == Init /\ [][NextHeights]_vars

\* The same calls on the blocks of the sections that are serialised.
SectionBlocks == { << 0, 64, 0 >>, << 0, 66, 0 >>, << 1, 64, 0 >>, << -1, -64, -1 >> }

NextSections ==
    \/ \E b \in SectionBlocks, id \in ProbeIds : SetBlock(1, b, id)
    \/ LoadChunkBlocks(1, << 0, 0 >>)

SpecSections == Init /\ [][NextSections]_vars

\* Ground levels load_chunk is called with.
ProbeGrounds == { 64, 70, 79, -64 }

\* BlockManager.load_chunk(chunk_x, chunk_z, ground_y) with flat_world = True
\* and use_terrain = False, its defaults.
LoadChunk(w, c, ground_y) ==
    /\ block_data' = [block_data EXCEPT ![w] = load_chunk(@, c, ground_y, "flat")]
    /\ UNCHANGED << connVars, buffer, recv_count, spc, sock, wire, world, has_player,
                    keep_alive_thread, stop_event, player, loaderVars, kpc, ka_sent,
                    num_worlds, updated_blocks, item_entities, next_entity_id,
                    entity_collision_cache, tickVars,
                    entity_update_pause_event, codec, net >>

NextFlat ==
    \/ \E c \in ProbeChunks, ground_y \in ProbeGrounds : LoadChunk(1, c, ground_y)
    \/ \E b \in { << 0, 64, 0 >>, << 16, 64, 0 >> }, id \in ProbeIds : SetBlock(1, b, id)

SpecFlat == Init /\ [][NextFlat]_vars

-----------------------------------------------------------------------------
(* Segments through a cluster of blocks that are set and cleared *)

\* Blocks above the ground that set_block is called for.
LineBlocks ==
    { << 0, 66, 0 >>, << 1, 66, 0 >>, << 0, 67, 0 >>, << 1, 67, 0 >>, << 1, 67, 1 >> }

\* End points of the segments: block middles, faces, edges and corners.
LinePoints ==
    { << x, y, z >> : x \in { Unit \div 2, Unit, Unit + Unit \div 2 },
                      y \in { 66 * Unit + Unit \div 2, 67 * Unit, 67 * Unit + Unit \div 4 },
                      z \in { Unit \div 2, Unit + Unit \div 4 } }

NextLine == \E b \in LineBlocks, id \in ProbeIds : SetBlock(1, b, id)

SpecLine == Init /\ [][NextLine]_vars

-----------------------------------------------------------------------------
(* ProtocolWriter and ProtocolReader (src/src/minecraft_protocol.py) *)

\* A Python int is held as its two's-complement digits in base 128, lowest
\* first, under a sign that stands for the digits above them: 0 for zeros,
\* -1 for 127s.  value = sum(digits[i] * 128^(i-1)) + sign * 128^Len(digits).
PyLong(digits, sign) == [digits |-> digits, sign |-> sign]

\* The digit that stands for the places above the digits written out.
Fill(v) == IF v.sign = 0 THEN 0 ELSE 127

\* The same number without the top digits its sign already stands for.
RECURSIVE Norm(_)
Norm(v) ==
    IF v.digits # << >> /\ v.digits[Len(v.digits)] = Fill(v)
    THEN Norm([v EXCEPT !.digits = SubSeq(@, 1, Len(@) - 1)])
    ELSE v

\* The first n digits of v.
Widen(v, n) == [i \in 1 .. n |-> IF i <= Len(v.digits) THEN v.digits[i] ELSE Fill(v)]

\* value & 0x7F
Low7(v) == IF v.digits = << >> THEN Fill(v) ELSE Head(v.digits)

\* value >> 7: Python shifts a negative int arithmetically.
Shr7(v) == [v EXCEPT !.digits = IF @ = << >> THEN << >> ELSE Tail(@)]

\* value == 0
IsZero(v) == Norm(v) = PyLong(<< >>, 0)

\* value + 0x100000000, for -2^32 <= value < 0: the low 32 bits of value.
Plus2p32(v) == PyLong([Widen(v, 5) EXCEPT ![5] = @ % 16], 0)

\* result & 0x80000000, for result >= 0
Bit31(v) == Len(v.digits) >= 5 /\ (v.digits[5] \div 8) % 2 = 1

\* result - 0x100000000, for 2^31 <= result < 2^35
Minus2p32(v) ==
    IF v.digits[5] < 16 THEN PyLong([Widen(v, 5) EXCEPT ![5] = @ + 112], -1)
    ELSE PyLong([v.digits EXCEPT ![5] = @ - 16], 0)

\* ProtocolReader.read_varint from offset i - 1 of data, with `result` the
\* digits read so far (shift = 7 * (i - 1)).
RECURSIVE read_varint_loop(_, _, _)
read_varint_loop(data, i, result) ==
    IF i > Len(data) THEN [error |-> "Not enough data for VarInt"]
    ELSE LET r == Append(result, data[i] % 128)
         IN  IF data[i] < 128
             THEN [error |-> "", value |-> IF Bit31(PyLong(r, 0))
                                           THEN Minus2p32(PyLong(r, 0))
                                           ELSE PyLong(r, 0)]
             ELSE IF 7 * i >= 32 THEN [error |-> "VarInt too long"]
             ELSE read_varint_loop(data, i + 1, r)

\* ProtocolReader(data).read_varint()
read_varint(data) == read_varint_loop(data, 1, << >>)

\* Bytes a writer loop is followed for.
MaxBytes == 11

\* Values the writers are called with: the numbers whose digits are taken
\* from ProbeDigits, up to `top` digits, the last under the mask of the width.
ProbeDigits == { 0, 1, 127 }

ProbeValues(n, sign, topDigits) ==
    { PyLong(d, sign) : d \in UNION { [1 .. k -> ProbeDigits] : k \in 0 .. n - 1 } }
    \cup { PyLong(d \o << t >>, sign) : d \in [1 .. n - 1 -> ProbeDigits], t \in topDigits }

\* Signed 32-bit values: 31 value bits are four digits and three bits.
ProbeInts ==
    ProbeValues(5, 0, 0 .. 7) \cup ProbeValues(5, -1, {120, 121, 127})

\* Signed 64-bit values: 63 value bits are nine digits.
ProbeLongs ==
    { PyLong([i \in 1 .. k |-> d], sign) : k \in 0 .. 9, d \in {1, 127}, sign \in {0, -1} }

\* writer.write_varint(value): the conversion to unsigned before the loop.
WriteVarintCall(x) ==
    /\ codec.pc = "idle"
    /\ codec' = [pc |-> "loop", kind |-> "varint", x |-> Norm(x),
                 value |-> IF x.sign < 0 THEN Plus2p32(x) ELSE x, data |-> << >>]
    /\ UNCHANGED << connVars, buffer, recv_count, spc, sock, wire, world, has_player,
                    keep_alive_thread, stop_event, player, loaderVars, kpc, ka_sent,
                    num_worlds, block_data, updated_blocks, item_entities, next_entity_id,
                    entity_collision_cache, tickVars, entity_update_pause_event, net >>

\* One turn of the loop of write_varint.
WriteVarintLoop ==
    /\ codec.pc = "loop"
    /\ codec.kind = "varint"
    /\ Len(codec.data) < MaxBytes
    /\ LET value == Shr7(codec.value)
           byte == IF ~IsZero(value) THEN Low7(codec.value) + 128 ELSE Low7(codec.value)
       IN  codec' = [codec EXCEPT !.value = value, !.data = Append(@, byte),
                                  !.pc = IF IsZero(value) THEN "written" ELSE "loop"]
    /\ UNCHANGED << connVars, buffer, recv_count, spc, sock, wire, world, has_player,
                    keep_alive_thread, stop_event, player, loaderVars, kpc, ka_sent,
                    num_worlds, block_data, updated_blocks, item_entities, next_entity_id,
                    entity_collision_cache, tickVars, entity_update_pause_event, net >>

\* ProtocolReader(writer.data).read_varint()
ReadVarint ==
    /\ codec.pc = "written"
    /\ codec.kind = "varint"
    /\ codec' = [pc |-> "read", kind |-> "varint", x |-> codec.x, data |-> codec.data,
                 result |-> read_varint(codec.data)]
    /\ UNCHANGED << connVars, buffer, recv_count, spc, sock, wire, world, has_player,
                    keep_alive_thread, stop_event, player, loaderVars, kpc, ka_sent,
                    num_worlds, block_data, updated_blocks, item_entities, next_entity_id,
                    entity_collision_cache, tickVars, entity_update_pause_event, net >>

\* writer.write_varlong(value)
WriteVarlongCall(x) ==
    /\ codec.pc = "idle"
    /\ codec' = [pc |-> "loop", kind |-> "varlong", x |-> Norm(x), value |-> x,
                 data |-> << >>]
    /\ UNCHANGED << connVars, buffer, recv_count, spc, sock, wire, world, has_player,
                    keep_alive_thread, stop_event, player, loaderVars, kpc, ka_sent,
                    num_worlds, block_data, updated_blocks, item_entities, next_entity_id,
                    entity_collision_cache, tickVars, entity_update_pause_event, net >>

\* One turn of the loop of write_varlong: byte & 0x80 is 0 for every byte.
WriteVarlongLoop ==
    /\ codec.pc = "loop"
    /\ codec.kind = "varlong"
    /\ Len(codec.data) < MaxBytes
    /\ LET byte == Low7(codec.value)
           value == Shr7(codec.value)
       IN  codec' = IF IsZero(value) /\ (byte \div 128) % 2 = 0
                    THEN [codec EXCEPT !.value = value, !.data = Append(@, byte),
                                       !.pc = "written"]
                    ELSE [codec EXCEPT !.value = value, !.data = Append(@, byte + 128)]
    /\ UNCHANGED << connVars, buffer, recv_count, spc, sock, wire, world, has_player,
                    keep_alive_thread, stop_event, player, loaderVars, kpc, ka_sent,
                    num_worlds, block_data, updated_blocks, item_entities, next_entity_id,
                    entity_collision_cache, tickVars, entity_update_pause_event, net >>

\* The writer and the reader are dropped.
CodecReturn ==
    /\ codec.pc \in {"read", "written"}
    /\ codec.pc = "written" => codec.kind = "varlong"
    /\ codec' = [pc |-> "idle"]
    /\ UNCHANGED << connVars, buffer, recv_count, spc, sock, wire, world, has_player,
                    keep_alive_thread, stop_event, player, loaderVars, kpc, ka_sent,
                    num_worlds, block_data, updated_blocks, item_entities, next_entity_id,
                    entity_collision_cache, tickVars, entity_update_pause_event, net >>

NextCodec ==
    \/ \E x \in ProbeInts : WriteVarintCall(x)
    \/ WriteVarintLoop
    \/ ReadVarint
    \/ \E x \in ProbeLongs : WriteVarlongCall(x)
    \/ WriteVarlongLoop
    \/ CodecReturn

SpecCodec == Init /\ [][NextCodec]_vars

-----------------------------------------------------------------------------
(* handle_client: recv and the parse loop, byte by byte *)

\* The largest packet length the parse loop accepts.
MAX_PACKET_LENGTH == 2097151

\* A Python int of read_varint, which is only compared with the largest
\* packet length and added to an offset: every value above the largest
\* length is written as the one after it.
Clip(v) == IF v > MAX_PACKET_LENGTH THEN MAX_PACKET_LENGTH + 1 ELSE v

\* (byte & 0x7F) << shift
Shifted(byte, shift) ==
    IF shift >= 28 THEN (IF byte % 128 = 0 THEN 0 ELSE MAX_PACKET_LENGTH + 1)
    ELSE Clip((byte % 128) * 2 ^ shift)

\* The while loop of read_varint(data, offset) of packet_debug_server, from
\* position pos on (positions count from 0).
RECURSIVE read_varint_at_loop(_, _, _, _)
read_varint_at_loop(data, pos, shift, result) ==
    IF pos >= Len(data) THEN [raised |-> FALSE, result |-> result, pos |-> pos]
    ELSE LET byte == data[pos + 1]
             r == Clip(result + Shifted(byte, shift))
         IN  IF byte \div 128 = 0 THEN [raised |-> FALSE, result |-> r, pos |-> pos + 1]
             ELSE IF shift + 7 >= 32 THEN [raised |-> TRUE, result |-> r, pos |-> pos + 1]
             ELSE read_varint_at_loop(data, pos + 1, shift + 7, r)

\* read_varint(data, offset) of packet_debug_server.
read_varint_at(data, offset) == read_varint_at_loop(data, offset, 0, 0)

\* buffer[a:b]
Slice(data, a, b) == SubSeq(data, a + 1, b)

\* The inner while loop of handle_client on `buffer` from `offset` on; base
\* is the position of buffer[0] in the stream of the connection.  It answers
\* the offset the loop ends with, the packets taken out and the positions
\* where decoding failed and one byte was skipped.
RECURSIVE parse_loop(_, _, _, _, _)
parse_loop(buf, offset, base, packets, fails) ==
    IF offset >= Len(buf) THEN [offset |-> offset, packets |-> packets, fails |-> fails]
    ELSE
      LET len == read_varint_at(buf, offset)
          total_packet_size == len.pos + len.result
          packet_data == Slice(buf, len.pos, total_packet_size)
          id == read_varint_at(packet_data, 0)
      IN  IF len.raised
          THEN \* except Exception: offset += 1; break at the end of the buffer
               parse_loop(buf, offset + 1, base, packets, Append(fails, base + offset))
          ELSE IF len.result > MAX_PACKET_LENGTH
          THEN \* Invalid packet length: offset += 1; continue
               parse_loop(buf, offset + 1, base, packets, Append(fails, base + offset))
          ELSE IF Len(buf) < total_packet_size
          THEN [offset |-> offset, packets |-> packets, fails |-> fails]
          ELSE IF id.raised
          THEN parse_loop(buf, offset + 1, base, packets, Append(fails, base + offset))
          ELSE parse_loop(buf, total_packet_size, base,
                          Append(packets, [at |-> base + offset, data |-> packet_data]),
                          fails)

\* Bytes every stream of the model is made of: a last byte of a varint with
\* value 0 or 1, and a continuing byte with payload 0 or 127.
ProbeBytes == {0, 1, 128, 255}

\* Bytes one client writes on its connection.
MaxStream == 6

\* The client writes one more byte.
NetSend(s, b) ==
    /\ sock[s] = "open"
    /\ Len(net.stream) < MaxStream
    /\ net' = [net EXCEPT !.stream = Append(@, b)]
    /\ UNCHANGED << connVars, buffer, recv_count, spc, sock, wire, world, has_player,
                    stop_event, player, loaderVars, kaVars, worldVars, tickVars,
                    entity_update_pause_event, codec >>

\* data = client_socket.recv(4096) returns n of the bytes that have arrived,
\* buffer += data, the parse loop runs and buffer = buffer[offset:].
Recv(s, n) ==
    /\ spc[s] = "read"
    /\ sock[s] = "open"
    /\ n \in 1 .. Len(net.stream) - net.recvd
    /\ LET data == SubSeq(net.stream, net.recvd + 1, net.recvd + n)
           buf == net.buffer \o data
           base == net.recvd - Len(net.buffer)
           r == parse_loop(buf, 0, base, net.packets, net.fails)
       IN  net' = [net EXCEPT !.recvd = @ + n,
                              !.buffer = Slice(buf, r.offset, Len(buf)),
                              !.packets = r.packets,
                              !.fails = r.fails]
    /\ UNCHANGED << connVars, buffer, recv_count, spc, sock, wire, world, has_player,
                    stop_event, player, loaderVars, kaVars, worldVars, tickVars,
                    entity_update_pause_event, codec >>

NextFrame ==
    \/ \E b \in ProbeBytes : NetSend(1, b)
    \/ \E n \in 1 .. MaxStream : Recv(1, n)
    \/ SocketBreak(1)
    \/ SessionClose(1)

SpecFrame == Init /\ [][NextFrame]_vars

-----------------------------------------------------------------------------
(* build_chunk_data: the sky light arrays *)

\* Height maps the terrain generator may answer for a chunk: the height of
\* column (x, z) is base, or base + step on every other column.
ProbeHeightMaps ==
    { [base |-> 64, step |-> 1], [base |-> 64, step |-> 20], [base |-> 70, step |-> 3],
      [base |-> 60, step |-> 0], [base |-> 47, step |-> 9], [base |-> 100, step |-> 2] }

\* heightmap_entries[z * 16 + x]
heightmap_entry(use_terrain, hm, x, z) ==
    IF use_terrain THEN hm.base + ((x + z) % 2) * hm.step ELSE 64

\* The sections build_chunk_data sends a sky light array for.
sky_light_sections(use_terrain, hm) ==
    LET min_height == IF use_terrain THEN hm.base ELSE 64
        min_section == (min_height + 64) \div 16
    IN  [i \in 1 .. NumSections - min_section |-> min_section + i - 1]

\* light_value of the block with index block_idx in section section_idx.
light_value(use_terrain, hm, section_idx, block_idx) ==
    LET x == block_idx % 16
        z == (block_idx \div 16) % 16
        world_y == -64 + section_idx * 16 + block_idx \div 256
        height_at_pos == heightmap_entry(use_terrain, hm, x, z)
    IN  IF world_y >= height_at_pos THEN 15
        ELSE IF 15 - (height_at_pos - world_y) > 0 THEN 15 - (height_at_pos - world_y)
        ELSE 0

\* light_array after the three loops: the block with the even index sets the
\* byte to (light_value << 4) & 0xF0, the next block ors light_value & 0x0F in.
light_array(use_terrain, hm, section_idx) ==
    [byte_idx \in 1 .. 2048 |->
        ((light_value(use_terrain, hm, section_idx, 2 * (byte_idx - 1)) * 16) % 256)
           + (light_value(use_terrain, hm, section_idx, 2 * (byte_idx - 1) + 1) % 16)]

\* build_chunk_data is called and reaches the sky light arrays.
BuildChunkData(use_terrain, hm) ==
    /\ codec.pc = "idle"
    /\ codec' = [pc |-> "light", use_terrain |-> use_terrain, hm |-> hm,
                 sections |-> sky_light_sections(use_terrain, hm), k |-> 0,
                 light_array |-> << >>]
    /\ UNCHANGED << connVars, buffer, recv_count, spc, sock, wire, world, has_player,
                    stop_event, player, loaderVars, kaVars, worldVars, tickVars,
                    entity_update_pause_event, net >>

\* One pass of `for section_idx in sky_light_sections`.
WriteSkyLight ==
    /\ codec.pc = "light"
    /\ codec.k < Len(codec.sections)
    /\ codec' = [codec EXCEPT !.k = @ + 1,
                              !.light_array = light_array(codec.use_terrain, codec.hm,
                                                          codec.sections[codec.k + 1])]
    /\ UNCHANGED << connVars, buffer, recv_count, spc, sock, wire, world, has_player,
                    stop_event, player, loaderVars, kaVars, worldVars, tickVars,
                    entity_update_pause_event, net >>

\* build_chunk_data returns.
ChunkDataReturn ==
    /\ codec.pc = "light"
    /\ codec.k = Len(codec.sections)
    /\ codec' = [pc |-> "idle"]
    /\ UNCHANGED << connVars, buffer, recv_count, spc, sock, wire, world, has_player,
                    stop_event, player, loaderVars, kaVars, worldVars, tickVars,
                    entity_update_pause_event, net >>

NextLight ==
    \/ \E hm \in ProbeHeightMaps : BuildChunkData(TRUE, hm)
    \/ BuildChunkData(FALSE, [base |-> 64, step |-> 0])
    \/ WriteSkyLight
    \/ ChunkDataReturn

SpecLight == Init /\ [][NextLight]_vars




-----------------------------------------------------------------------------
(* Properties *)

Last(q) == q[Len(q)]

\* The indices of wire wr that hold a packet with the given name.
Sent(wr, name) == { i \in 1 .. Len(wr) : wr[i].name = name }

\* C1: the connection state of a session changes only while the session
\* handles a packet, and only along Handshaking -> Status (Handshake, intent
\* 1), Handshaking -> Login (Handshake, intent 2), Login -> Configuration
\* (id 0x03) and Configuration -> Play (id 0x03); it never goes back.
C1_StateEdges ==
    [][\A s \in Sessions :
          connection_state'[s] # connection_state[s] =>
             /\ AtPacket(s)
             /\ LET p == Head(buffer[s])
                    a == connection_state[s]
                    b == connection_state'[s]
                IN  /\ \/ a = HANDSHAKING /\ p.id = 0 /\ p.arg = 1 /\ b = STATUS
                       \/ a = HANDSHAKING /\ p.id = 0 /\ p.arg = 2 /\ b = LOGIN
                       \/ a = LOGIN /\ p.id = 3 /\ b = CONFIGURATION
                       \/ a = CONFIGURATION /\ p.id = 3 /\ b = PLAY
                    /\ StateRank(b) > StateRank(a)]_vars

\* A session that reached Play and has handled every packet its client sent.
C1_Witness ==
    connection_state[1] = PLAY /\ recv_count[1] = MaxRecv /\ buffer[1] = << >>
    /\ spc[1] = "read"

\* The packets the session handler has written from Login (play) on.
BootWrites(wr) ==
    LET from == CHOOSE i \in Sent(wr, "LoginPlay") : \A j \in Sent(wr, "LoginPlay") : i <= j
        OfSession(i) == wr[i].by = "session"
        idx == SelectSeq([i \in 1 .. Len(wr) |-> i], LAMBDA i : i >= from /\ OfSession(i))
    IN  IF Sent(wr, "LoginPlay") = {} THEN << >>
        ELSE [k \in 1 .. Len(idx) |-> << wr[idx[k]].name, wr[idx[k]].arg >>]

\* Login (play), Synchronize Player Position (0, 65, 0, teleport id 0),
\* Update Time, Game Event 13, Set Center Chunk (0, 0).
BootExpected ==
    << << "LoginPlay", << 1 >> >>, << "SyncPlayerPosition", << 0, 65, 0, 0 >> >>,
       << "UpdateTime", << 0, 6000 >> >>, << "GameEvent", << 13 >> >>,
       << "SetCenterChunk", << 0, 0 >> >> >>

\* C2: on every socket the first packets the session handler writes from
\* Login (play) on are the bootstrap packets in their order, and every Chunk
\* Data and Keep Alive on the wire comes after the session handler's Set
\* Center Chunk (0, 0).
C2_BootstrapOrder ==
    \A s \in Sessions :
        LET wr == wire[s]
            bw == BootWrites(wr)
        IN  /\ \A k \in 1 .. Min(Len(bw), Len(BootExpected)) : bw[k] = BootExpected[k]
            /\ \A i \in Sent(wr, "ChunkData") \cup Sent(wr, "KeepAlive") :
                  \E j \in 1 .. i - 1 :
                     /\ wr[j].name = "SetCenterChunk"
                     /\ wr[j].by = "session"
                     /\ wr[j].arg = << 0, 0 >>

\* The bootstrap is on the wire, followed by a whole Chunk Data and a Keep Alive.
C2_Witness ==
    /\ Len(BootWrites(wire[1])) >= Len(BootExpected)
    /\ \E i \in Sent(wire[1], "ChunkData") : wire[1][i].part = "last"
    /\ Sent(wire[1], "KeepAlive") # {}

\* C3: when the session handles Known Packs on an open socket it writes one
\* Registry Data for each of the required registries and then, last, Finish
\* Configuration; and a wire never carries more than one Known Packs.
C3_ConfigurationReplies ==
    [][\A s \in Sessions :
          /\ Cardinality(Sent(wire'[s], "KnownPacks")) <= 1
          /\ ( /\ AtPacket(s)
               /\ connection_state[s] = CONFIGURATION
               /\ Head(buffer[s]).id = 7
               /\ Head(buffer[s]).ok
               /\ sock[s] = "open"
               /\ buffer'[s] = Tail(buffer[s]) )
             => LET n == Len(wire[s])
                    added == SubSeq(wire'[s], n + 1, Len(wire'[s]))
                IN  /\ SubSeq(wire'[s], 1, n) = wire[s]
                    /\ Len(added) = NumRegistries + 1
                    /\ \A r \in 1 .. NumRegistries :
                          \E i \in 1 .. NumRegistries :
                             added[i].name = "RegistryData" /\ added[i].arg = << r >>
                    /\ Last(added).name = "FinishConfiguration"]_vars

\* Known Packs went out once, and the registries and Finish Configuration after it.
C3_Witness ==
    /\ Cardinality(Sent(wire[1], "KnownPacks")) = 1
    /\ Cardinality(Sent(wire[1], "RegistryData")) >= NumRegistries
    /\ Sent(wire[1], "FinishConfiguration") # {}

\* The (connection state, packet id) pairs parse_packet has a case for.
DispatchTable ==
    { << HANDSHAKING, 0 >>, << LOGIN, 0 >>, << LOGIN, 3 >>, << CONFIGURATION, 0 >>,
      << CONFIGURATION, 3 >>, << CONFIGURATION, 7 >>, << PLAY, 29 >>, << PLAY, 30 >>,
      << PLAY, 31 >>, << PLAY, 27 >>, << PLAY, 40 >>, << PLAY, 17 >>, << PLAY, 63 >>,
      << PLAY, 52 >> }

\* The next packet of s is one the dispatch table does not know.
UnknownAtHead(s) ==
    AtPacket(s) /\ << connection_state[s], Head(buffer[s]).id >> \notin DispatchTable

\* The part of a Player that is not the chunk worker's to change.
PlayerState(pl) == [pl EXCEPT !.loaded_chunks = {}]

\* C4: while a packet outside the dispatch table is next, the session
\* handler's only step is to drop it: that step changes nothing but the
\* buffer, which loses the packet; no other step changes the connection
\* state, the player or the position of the session thread, writes a packet
\* of the session handler or closes the socket; and the drop is enabled.
C4_UnknownIgnored ==
    [][\A s \in Sessions :
          UnknownAtHead(s) =>
             /\ ENABLED HandleUnknown(s)
             /\ connection_state'[s] = connection_state[s]
             /\ known_packs_sent'[s] = known_packs_sent[s]
             /\ spc'[s] = "read"
             /\ sock'[s] # "closed"
             /\ PlayerState(player'[s]) = PlayerState(player[s])
             /\ wire'[s] # wire[s] => Last(wire'[s]).by # "session"
             /\ buffer'[s] # buffer[s] /\ Len(buffer'[s]) <= Len(buffer[s]) =>
                   /\ buffer'[s] = Tail(buffer[s])
                   /\ wire' = wire
                   /\ player' = player
                   /\ block_data' = block_data
                   /\ updated_blocks' = updated_blocks
                   /\ item_entities' = item_entities
                   /\ entity_collision_cache' = entity_collision_cache
                   /\ next_entity_id' = next_entity_id
                   /\ chunk_queue' = chunk_queue]_vars

\* In Play, with the player there, a packet outside the table is next.
C4_Witness ==
    UnknownAtHead(1) /\ connection_state[1] = PLAY /\ has_player[1]
    /\ wpc[1] = "sending"

\* C5: the bytes of two packets are never interleaved on a socket: what
\* follows the first part of a packet's bytes is the last part of the same
\* packet, written by the same thread.
C5_WritesSerialized ==
    \A s \in Sessions :
        \A i \in 1 .. Len(wire[s]) - 1 :
            wire[s][i].part = "first" =>
               /\ wire[s][i + 1].part = "last"
               /\ wire[s][i + 1].by = wire[s][i].by
               /\ wire[s][i + 1].arg = wire[s][i].arg


\* The worlds whose entity update thread has been started.
TickThreads == { w \in WorldIds : tpc[w] # "none" }

\* C6: the sessions in Play work on one world: each reads the same block at
\* every dig target and has the same entity table as every other, and there
\* is at most one entity update thread.
C6_OneSharedWorld ==
    /\ Cardinality(TickThreads) <= 1
    /\ \A s \in Sessions, t \in Sessions :
          connection_state[s] = PLAY /\ connection_state[t] = PLAY =>
             /\ \A i \in 1 .. Len(DigTargets) :
                   get_block(block_data[world[s]], DigTargets[i])
                      = get_block(block_data[world[t]], DigTargets[i])
             /\ item_entities[world[s]] = item_entities[world[t]]

\* C7: no frozen entity is still frozen on the old check at the end of the
\* first tick that started after one of its checked blocks was set.
C7_NextTickClears == \A w \in WorldIds : gravity_watch[w].missed = {}

\* Entity id of world w rests on a cached collision.
Resting(w, id) ==
    /\ id \in DOMAIN entity_collision_cache[w]
    /\ id \in DOMAIN item_entities[w]
    /\ entity_collision_cache[w][id].result
    /\ entity_collision_cache[w][id].gravity_disabled

Motion(e) == << e.x, e.y, e.z, e.velocity_x, e.velocity_y, e.velocity_z >>

\* C8: a step taken while an entity rests on a cached collision and none of
\* the blocks of that check is in the mutated set leaves the entity's
\* position and velocity and its cache entry as they are.
C8_RestIsStable ==
    [][\A w \in WorldIds : \A id \in DOMAIN entity_collision_cache[w] :
          ( /\ Resting(w, id)
            /\ entity_collision_cache[w][id].blocks_checked \cap updated_blocks[w] = {} )
          => /\ id \in DOMAIN item_entities'[w]
             /\ Motion(item_entities'[w][id]) = Motion(item_entities[w][id])
             /\ id \in DOMAIN entity_collision_cache'[w]
             /\ entity_collision_cache'[w][id] = entity_collision_cache[w][id]]_vars

\* The tick is about to finish its turn for an entity that rests on a cached
\* collision with no checked block mutated.
C8_Witness ==
    /\ tpc[1] = "check"
    /\ LET id == Head(tlocal[1].todo)
       IN  /\ Resting(1, id)
           /\ tlocal[1].cache # << >>
           /\ entity_collision_cache[1][id].blocks_checked \cap updated_blocks[1] = {}

\* C9: the step that ends update_item_entities leaves the mutated set empty,
\* and as long as the tick holds the set get_updated_blocks gave it, the
\* content of that set does not change, whatever set_block and
\* clear_updated_blocks do to the block manager's set.
C9_MutatedSetCleared ==
    [][\A w \in WorldIds :
          /\ tpc[w] = "entity" /\ tpc'[w] = "wait" => updated_blocks'[w] = {}
          /\ tlocal'[w].ref = tlocal[w].ref =>
                SetValue(tlocal'[w].ref, updated_blocks'[w])
                   = SetValue(tlocal[w].ref, updated_blocks[w])]_vars

\* A tick has ended and left the mutated set empty, and the set it was given
\* by get_updated_blocks still has the blocks it had.
C9_Witness ==
    /\ tpc[1] = "wait"
    /\ updated_blocks[1] = {}
    /\ SetValue(tlocal[1].ref, updated_blocks[1]) # {}

\* All 24 sections of chunk c are resident.
ChunkResident(bd, c) ==
    \A sy \in 0 .. NumSections - 1 : << c[1], c[2], sy >> \in DOMAIN bd.sections

\* C10: load_chunk_blocks on a chunk whose sections are all resident leaves
\* every block as it was.
C10_LoadChunkIdempotent ==
    [][\A c \in ProbeChunks :
          ( /\ ChunkResident(block_data[1], c)
            /\ block_data'[1] = load_chunk_blocks(block_data[1], c, 64, UseTerrain) )
          => \A b \in ProbeBlocks :
                get_block(block_data'[1], b) = get_block(block_data[1], b)]_vars

\* C11: a set_block(x, y, z, s) with y in -64 .. 319 succeeds; afterwards
\* get_block(x, y, z) is s and (x, y, z) is in the mutated set; and when the
\* section of (x, y, z) was resident, get_block answers as before at every
\* other coordinate.
C11_SetBlockWrites ==
    [][\A b \in ProbeBlocks, id \in ProbeIds :
          (SetBlock(1, b, id) /\ -64 <= b[2] /\ b[2] <= 319) =>
             /\ set_block_result(b)
             /\ get_block(block_data'[1], b) = id
             /\ b \in updated_blocks'[1]
             /\ Resident(block_data[1], SectionKey(b)) =>
                   \A c \in ProbeBlocks \ {b} :
                      get_block(block_data'[1], c) = get_block(block_data[1], c)]_vars

\* Blocks at the lowest and the highest y have been set, one of them in a
\* chunk that was loaded and one in a section set_block materialised.
C11_Witness ==
    /\ get_block(block_data[1], << -1, -64, -1 >>) = BLOCK_STONE
    /\ get_block(block_data[1], << 15, 319, 15 >>) = BLOCK_STONE
    /\ << 15, 319, 15 >> \in updated_blocks[1]
    /\ ChunkResident(block_data[1], << 0, 0 >>)
    /\ ~ChunkResident(block_data[1], << -1, -1 >>)

\* The block a dig packet at the head of the buffer of s is aimed at, and
\* the item id its loot resolves to before the dig (0: no drop).
DigBlock(s) == DigTargets[Head(buffer[s]).arg]

DigItemId(s) ==
    get_item_id_from_name(get_item_for_block(get_block_name_from_state_id(
        get_block(block_data[world[s]], DigBlock(s)))))

\* The writes a step added to the wire of s.
Added(s) == SubSeq(wire'[s], Len(wire[s]) + 1, Len(wire'[s]))

\* C12: the step that handles a finished-digging Player Action for a block
\* with a drop, on an open socket, leaves the block air, writes Block Update
\* (air), then Spawn Entity, then Set Entity Metadata (item, count 1) for the
\* new entity, and leaves that entity, with count 1, in the entity table.
C12_DigDropsInOrder ==
    [][\A s \in Sessions :
          (HandleDig(s) /\ sock[s] = "open" /\ DigItemId(s) # 0) =>
             LET w == world[s]
                 b == DigBlock(s)
                 id == next_entity_id[w]
             IN  /\ get_block(block_data'[w], b) = BLOCK_AIR
                 /\ SubSeq(wire'[s], 1, Len(wire[s])) = wire[s]
                 /\ Len(Added(s)) = 3
                 /\ Added(s)[1].name = "BlockUpdate" /\ Added(s)[1].arg = b
                 /\ Added(s)[2].name = "SpawnEntity" /\ Added(s)[2].arg = << id >>
                 /\ Added(s)[3].name = "SetEntityMetadata"
                 /\ Added(s)[3].arg = << id, DigItemId(s), 1 >>
                 /\ id \notin DOMAIN item_entities[w]
                 /\ id \in DOMAIN item_entities'[w]
                 /\ item_entities'[w][id].count = 1
                 /\ item_entities'[w][id].item_id = DigItemId(s)]_vars

\* A dig has dropped an item: the block is air, the drop is in the entity
\* table and its metadata is on the wire.
C12_Witness ==
    /\ connection_state[1] = PLAY
    /\ get_block(block_data[world[1]], DigTargets[1]) = BLOCK_AIR
    /\ ChunkResident(block_data[world[1]], << 0, 0 >>)
    /\ 1000 \in DOMAIN item_entities[world[1]]
    /\ Sent(wire[1], "SetEntityMetadata") # {}

\* C13: the step that handles a finished-digging Player Action for a block
\* whose name has no loot entry or whose drop has no item id sets the block
\* to air, writes exactly one Block Update, creates no item entity and
\* consumes the packet.
C13_NoLootDigConsumed ==
    [][\A s \in Sessions :
          ( /\ HandleDig(s)
            /\ sock[s] = "open"
            /\ get_block_name_from_state_id(
                  get_block(block_data[world[s]], DigBlock(s))) # "none"
            /\ DigItemId(s) = 0 )
          => /\ get_block(block_data'[world[s]], DigBlock(s)) = BLOCK_AIR
             /\ Len(Added(s)) = 1
             /\ Added(s)[1].name = "BlockUpdate"
             /\ item_entities' = item_entities
             /\ buffer'[s] = Tail(buffer[s])]_vars


\* The slot a Use Item On of session s takes its item from.
UseSlot(s) ==
    IF UseChoices[Next_packet(s).arg][1] = 0
    THEN 36 + player[s].selected_hotbar_slot ELSE 45

\* The next packet of s is a Use Item On whose held item maps to no block
\* state.
UseUnmapped(s) ==
    /\ AtPacket(s)
    /\ NextParser(s) = "use_item_on"
    /\ UseSlot(s) \in DOMAIN player[s].inventory_slots
    /\ player[s].inventory_slots[UseSlot(s)][1] > 0
    /\ get_block_state_id_from_item_id(player[s].inventory_slots[UseSlot(s)][1]) = -1

\* C14: a Use Item On packet whose held item maps to no block state is a
\* no-op: no block is set, the held slot and inventory_state_id are
\* unchanged, nothing is sent, and the packet is consumed.
C14_UnmappedPlaceNoOp ==
    [][HandleUseItemOn(1) /\ UseUnmapped(1)
         => /\ block_data' = block_data
            /\ player' = player
            /\ wire' = wire
            /\ buffer'[1] = Tail(buffer[1])]_vars

\* The entity ids the pickup scan of the Set Player Position at the head of
\* the buffer of s returns.
PickupScan(s) ==
    LET pos == PosChoices[Next_packet(s).arg]
    IN  check_item_pickups(update_position(player[s], pos[1], pos[2], pos[3]),
                           item_entities[world[s]])

\* The next packet of s is a position whose pickup scan finds entities, on an
\* open socket.
AtPickup(s) ==
    /\ AtPacket(s)
    /\ NextParser(s) \in {"set_player_position", "set_player_position_and_rotation"}
    /\ sock[s] = "open"
    /\ PickupScan(s) # << >>

\* The slot packing policy reports a full inventory for every entity of the
\* scan.
InventoryFull(s) ==
    \A i \in 1 .. Len(PickupScan(s)) :
        find_slot_for_item(player[s], item_entities[world[s]][PickupScan(s)[i]].item_id) = -1

\* C15: when the pickup scan finds an eligible entity but the inventory is
\* full, the entity stays in the entity table and the inventory slots and
\* inventory_state_id are unchanged.
C15_FullInventoryKeepsEntity ==
    [][HandleSetPosition(1) /\ AtPickup(1) /\ InventoryFull(1)
         => /\ item_entities' = item_entities
            /\ player'[1].inventory_slots = player[1].inventory_slots
            /\ player'[1].inventory_state_id = player[1].inventory_state_id]_vars

\* The slots of 9 .. 44 of session s that hold item_id with count < 64.
StackSlots(s, item_id) ==
    { i \in 9 .. 44 : /\ i \in DOMAIN player[s].inventory_slots
                      /\ player[s].inventory_slots[i][1] = item_id
                      /\ player[s].inventory_slots[i][2] < 64 }

\* The empty slots of lo .. hi of session s.
EmptySlots(s, lo, hi) == { i \in lo .. hi : i \notin DOMAIN player[s].inventory_slots }

\* slot is the lowest of S.
Lowest(slot, S) == slot \in S /\ \A j \in S : slot <= j

\* C16: find_slot_for_item returns the lowest slot of 9..44 holding the same
\* item with count < 64 if there is one, else the lowest empty slot of 36..44,
\* else the lowest empty slot of 9..35, else none; never a slot outside 9..44
\* and never a slot holding a different item.
C16_FindSlotPolicy ==
    \A item_id \in ProbeItems :
        LET slot == find_slot_for_item(player[1], item_id)
        IN  /\ IF StackSlots(1, item_id) # {} THEN Lowest(slot, StackSlots(1, item_id))
               ELSE IF EmptySlots(1, 36, 44) # {} THEN Lowest(slot, EmptySlots(1, 36, 44))
               ELSE IF EmptySlots(1, 9, 35) # {} THEN Lowest(slot, EmptySlots(1, 9, 35))
               ELSE slot = -1
            /\ slot = -1 \/ slot \in 9 .. 44
            /\ slot \in DOMAIN player[1].inventory_slots
                  => player[1].inventory_slots[slot][1] = item_id

\* After a pickup: no stack of item 14 has room, the hotbar is full, and
\* slots 9 and 35 of the main inventory are both empty, so the answer for item 14 is
\* slot 9.
C16_Witness ==
    /\ player[1].inventory_state_id > 0
    /\ StackSlots(1, 14) = {}
    /\ EmptySlots(1, 36, 44) = {}
    /\ EmptySlots(1, 9, 35) = {9, 35}
    /\ find_slot_for_item(player[1], 14) = 9

\* The item ids the inventory script deals in.
ScriptItems == {14, 200, 900}

\* The sum of the counts of item_id over the slots S of inventory inv.
RECURSIVE CountIn(_, _, _)
CountIn(inv, item_id, S) ==
    IF S = {} THEN 0
    ELSE LET i == CHOOSE j \in S : TRUE
         IN  (IF inv[i][1] = item_id THEN inv[i][2] ELSE 0) + CountIn(inv, item_id, S \ {i})

TotalOf(pl, item_id) == CountIn(pl.inventory_slots, item_id, DOMAIN pl.inventory_slots)

\* The items of item_id the entities ids of ents carry in total.
RECURSIVE CarriedBy(_, _, _)
CarriedBy(ents, ids, item_id) ==
    IF ids = << >> THEN 0
    ELSE (IF ents[Head(ids)].item_id = item_id THEN ents[Head(ids)].count ELSE 0)
         + CarriedBy(ents, Tail(ids), item_id)

\* Every entity of ids, picked up in turn from st on, has a target slot, and
\* no target slot would exceed 64.
RECURSIVE PickupFits(_, _)
PickupFits(st, ids) ==
    IF ids = << >> THEN TRUE
    ELSE LET e == st.ents[Head(ids)]
             slot == find_slot_for_item(st.pl, e.item_id)
             inv == st.pl.inventory_slots
         IN  /\ slot # -1
             /\ (IF slot \in DOMAIN inv THEN inv[slot][2] ELSE 0) + e.count <= 64
             /\ PickupFits(PickupItem(st, Head(ids)), Tail(ids))

\* The pickup loop of the position at the head of the buffer of s starts here.
PickupStart(s) ==
    LET pos == PosChoices[Next_packet(s).arg]
    IN  [pl |-> update_position(player[s], pos[1], pos[2], pos[3]),
         ents |-> item_entities[world[s]],
         cache |-> entity_collision_cache[world[s]], sent |-> << >>]

\* C17: after the player picks up item entities carrying k items of one item
\* id in total, the sum of that item's counts over all inventory slots is the
\* sum before plus k, whenever each entity has a target slot and no target
\* slot would exceed 64.
C17_PickupAddsCount ==
    [][HandleSetPosition(1) /\ AtPickup(1) /\ PickupFits(PickupStart(1), PickupScan(1))
         => \A item_id \in ScriptItems :
               TotalOf(player'[1], item_id) =
                   TotalOf(player[1], item_id)
                   + CarriedBy(item_entities[world[1]], PickupScan(1), item_id)]_vars

\* A pickup has stacked onto a slot: Pickup Item of one item was followed by
\* a Set Container Slot with a larger count, and the slot holds it.
C17_Witness ==
    \E i \in 1 .. Len(wire[1]) - 2 :
        /\ wire[1][i].name = "PickupItem"
        /\ wire[1][i + 2].name = "SetContainerSlot"
        /\ wire[1][i + 2].arg[4] > wire[1][i].arg[2]
        /\ wire[1][i + 2].arg[4] <= 64
        /\ TotalOf(player[1], wire[1][i + 2].arg[3]) >= wire[1][i + 2].arg[4]

\* C18: every item entity in the entity table of a world has a count of at
\* least 1 and at most 64.
C18_EntityCountInRange ==
    \A w \in WorldIds : \A id \in DOMAIN item_entities[w] :
        /\ 1 <= item_entities[w][id].count
        /\ item_entities[w][id].count <= 64

\* The count slot slot_idx of player pl holds, 0 when it is empty.
SlotCount(pl, slot_idx) ==
    IF slot_idx \in DOMAIN pl.inventory_slots THEN pl.inventory_slots[slot_idx][2] ELSE 0

\* The slot a Player Action drop of session s takes from.
HeldSlot(s) == 36 + player[s].selected_hotbar_slot

NextClickDrop(s) == ClickDrop(player[s], ClickChoices[Next_packet(s).arg])

\* C20: a Click Container drop on window 0 (mode 0 with slot -999 and a
\* non-empty cursor, or mode 4 on a non-empty slot) adds an item entity of the
\* dropped item to the entity table whose count is the number of items taken
\* from the cursor or the slot.  Read on an open socket.
C20_ClickDropSpawns ==
    [][HandleClickContainer(1) /\ sock[1] = "open" /\ NextClickDrop(1) # << >>
         => \E id \in DOMAIN item_entities'[world[1]] \ DOMAIN item_entities[world[1]] :
               /\ item_entities'[world[1]][id].item_id = NextClickDrop(1)[1]
               /\ item_entities'[world[1]][id].count = NextClickDrop(1)[2]]_vars

\* The load messages a session of the loader script is given: the one of the
\* bootstrap and the probes.
LoadMessages ==
    ProbeLoads \cup { [chunks |-> get_chunks_in_range(<< 0, 0 >>), center |-> << 0, 0 >>] }

\* Write i on the wire of session 1 starts a Chunk Data packet.
IsChunk(i) == wire[1][i].name = "ChunkData" /\ wire[1][i].part = "first"

\* The chunks sent after the worker's Set Center Chunk before write k (or
\* from the start) and before write k.
BatchBefore(k) ==
    LET prev == { j \in WorkerCenters(1) : j < k }
        from == IF prev = {} THEN 1 ELSE 1 + CHOOSE j \in prev : \A l \in prev : l <= j
        idx == { i \in from .. k - 1 : IsChunk(i) }
    IN  [chunks |-> idx, center |-> IF k \in WorkerCenters(1) THEN wire[1][k].arg
                                    ELSE wjob[1].center]

\* The chunks of batch b went out in non-decreasing Manhattan distance from
\* its center.
SentByDistance(b) ==
    \A i, j \in b.chunks :
        i < j => Manhattan(wire[1][i].arg, b.center) <= Manhattan(wire[1][j].arg, b.center)

\* Batch b is one whole load message: each chunk of the message once.
WholeMessage(b) ==
    \E m \in LoadMessages :
        /\ m.center = b.center
        /\ Cardinality(b.chunks) = Len(m.chunks)
        /\ { wire[1][i].arg : i \in b.chunks } = { m.chunks[i] : i \in 1 .. Len(m.chunks) }

\* On a connection that is open and not cancelled: every batch the worker
\* has closed with Set Center Chunk is one whole message sent by distance
\* from that center, and the batch in hand is sent by distance so far.
LoadOrder ==
    sock[1] = "open" /\ ~stop_event[1]
        => /\ \A k \in WorkerCenters(1) :
                 SentByDistance(BatchBefore(k)) /\ WholeMessage(BatchBefore(k))
           /\ SentByDistance(BatchBefore(Len(wire[1]) + 1))

\* A chunk is marked loaded on the player only when its packet is out.
MarkedAfterSent ==
    \A c \in player[1].loaded_chunks :
        \E i \in 1 .. Len(wire[1]) :
            /\ wire[1][i].name = "ChunkData"
            /\ wire[1][i].part = "last"
            /\ wire[1][i].arg = c

\* C21: for each load message the worker sends the chunks in non-decreasing
\* Manhattan distance from the message's center, marks a chunk loaded only
\* after its packet was sent, and sends Set Center Chunk for that center
\* after the last chunk of the batch and before any chunk of a later message.
C21_LoadBatchOrder == LoadOrder /\ MarkedAfterSent

\* Two batches are out: the worker has sent a second Set Center Chunk, for
\* center (1, 0), after a batch of several chunks.
C21_Witness ==
    /\ sock[1] = "open"
    /\ \E k \in WorkerCenters(1) :
          /\ wire[1][k].arg = << 1, 0 >>
          /\ Cardinality(BatchBefore(k).chunks) = 3
          /\ \E j \in WorkerCenters(1) : j < k /\ Cardinality(BatchBefore(j).chunks) = 4
    /\ << 2, 1 >> \in player[1].loaded_chunks

\* C22: when a session that has started its chunk worker has left its read
\* loop, its cancellation event is set and its socket is closed.
C22_CloseCancels ==
    \A s \in Sessions :
        spc[s] = "closed" /\ has_loader[s] => stop_event[s] /\ sock[s] = "closed"

\* C23: no entity with y outside the vertical range of the world survives a
\* completed tick: when a tick ends, every entity it has updated that is
\* still in the entity table has -64 <= y <= 319.
C23_OutOfRangeRemoved ==
    [][TickEnd(1)
         => \A id \in DOMAIN item_entities'[1] \cap DOMAIN tlocal[1].objs :
               /\ item_entities'[1][id].y >= WorldBottom
               /\ item_entities'[1][id].y <= WorldTop]_vars

\* C24: an error in the physics update of an entity does not end the tick
\* thread: the thread of a world keeps running (no world of the model is
\* shut down).
C24_TickThreadSurvives == \A w \in WorldIds : tpc[w] # "dead"


\* C25: for a resident section get_chunk_section_for_protocol answers the
\* strictly increasing list of the distinct ids of the section as palette,
\* 4096 indices with palette[indices[i]] the i-th block of the section, and
\* the number of entries other than air as count; for a section that is not
\* resident it answers (0, [air], 4096 zeros).  A stored list has 4096 entries.
C25_ProtocolSection ==
    \A key \in ProbeSections :
       LET r == get_chunk_section_for_protocol(block_data[1], key)
           n == Len(r.palette)
       IN  IF Resident(block_data[1], key)
           THEN /\ \A i \in 1 .. n - 1 : r.palette[i] < r.palette[i + 1]
                /\ DOMAIN r.palette_indices = 0 .. 4095
                /\ \A idx \in 0 .. 4095 :
                      /\ r.palette_indices[idx] \in 0 .. n - 1
                      /\ r.palette[r.palette_indices[idx] + 1] =
                            get_block(block_data[1], block_at(key, idx))
                /\ \A i \in 1 .. n : \E idx \in 0 .. 4095 :
                      get_block(block_data[1], block_at(key, idx)) = r.palette[i]
                /\ r.block_count + Cardinality({ idx \in 0 .. 4095 :
                      get_block(block_data[1], block_at(key, idx)) = BLOCK_AIR }) = 4096
           ELSE /\ r.block_count = 0
                /\ r.palette = << BLOCK_AIR >>
                /\ r.palette_indices = [idx \in 0 .. 4095 |-> 0]

\* A loaded section holding surface blocks, dirt, air and a stone block that
\* was set, next to a section that is not resident.
C25_Witness ==
    /\ Resident(block_data[1], << 0, 0, 8 >>)
    /\ ~Resident(block_data[1], << -1, -1, 0 >>)
    /\ get_block(block_data[1], << 0, 66, 0 >>) = BLOCK_STONE
    /\ Len(get_chunk_section_for_protocol(block_data[1], << 0, 0, 8 >>).palette) >= 3
    /\ get_chunk_section_for_protocol(block_data[1], << 0, 0, 8 >>).block_count
          \in 1 .. 4095


\* Columns of chunk c that are read back.
ProbeColumns(c) == { << c[1] * 16 + dx, c[2] * 16 + dz >> : dx \in {0, 15}, dz \in {0, 7} }

\* C26 as stated: after load_chunk(cx, cz, ground_y) in flat mode every column
\* of the chunk has grass at ground_y, dirt at ground_y - 1 and air at every
\* other y of -64 .. 319.
C26_FlatLayers ==
    [][\A c \in ProbeChunks, ground_y \in ProbeGrounds :
          LoadChunk(1, c, ground_y) =>
             \A col \in ProbeColumns(c), y \in -64 .. 319 :
                get_block(block_data'[1], << col[1], y, col[2] >>) =
                   IF y = ground_y THEN BLOCK_GRASS_BLOCK
                   ELSE IF y = ground_y - 1 THEN BLOCK_DIRT
                   ELSE BLOCK_AIR]_vars

\* C26, amended: after load_chunk(cx, cz, ground_y) in flat mode every column
\* of the chunk has grass at ground_y, dirt at ground_y - 1, dirt at every y
\* of the sections below the one that holds ground_y, and air at every other
\* y of -64 .. 319.
C26_FlatLayersFilled ==
    [][\A c \in ProbeChunks, ground_y \in ProbeGrounds :
          LoadChunk(1, c, ground_y) =>
             \A col \in ProbeColumns(c), y \in -64 .. 319 :
                get_block(block_data'[1], << col[1], y, col[2] >>) =
                   IF y = ground_y THEN BLOCK_GRASS_BLOCK
                   ELSE IF y = ground_y - 1 THEN BLOCK_DIRT
                   ELSE IF world_to_section_y(y) < world_to_section_y(ground_y)
                        THEN BLOCK_DIRT
                   ELSE BLOCK_AIR]_vars

\* One chunk loaded flat at ground 64 over a block that had been set, the
\* other at ground 70, whose section has air under its dirt layer.
C26_Witness ==
    /\ Resident(block_data[1], << 0, 0, 8 >>)
    /\ Resident(block_data[1], << 1, 0, 8 >>)
    /\ block_data[1].sections[<< 0, 0, 8 >>] = InitialSection("flat", 64)
    /\ block_data[1].sections[<< 1, 0, 8 >>] = InitialSection("flat", 70)
    /\ << 0, 64, 0 >> \in updated_blocks[1]
    /\ get_block(block_data[1], << 0, 64, 0 >>) = BLOCK_GRASS_BLOCK
    /\ get_block(block_data[1], << 0, 63, 0 >>) = BLOCK_DIRT
    /\ get_block(block_data[1], << 0, 62, 0 >>) = BLOCK_DIRT
    /\ get_block(block_data[1], << 16, 64, 0 >>) = BLOCK_AIR
    /\ get_block(block_data[1], << 16, 63, 0 >>) = BLOCK_DIRT


\* The bytes of a writer read as an unsigned number, lowest seven bits first.
Leb128(data) == Norm(PyLong([i \in 1 .. Len(data) |-> data[i] % 128], 0))

\* The 64-bit two's complement of x as an unsigned number.
Unsigned64(x) == Norm(PyLong([Widen(x, 10) EXCEPT ![10] = @ % 2], 0))

\* The continuation bit is set on every byte but the last.
Continued(data) ==
    \A i \in 1 .. Len(data) : (data[i] >= 128) <=> (i < Len(data))

\* write_varint(x) gives 1 to 5 bytes and read_varint gives x back.
VarintRoundTrip ==
    codec.pc \in {"written", "read"} /\ codec.kind = "varint" =>
       /\ Len(codec.data) \in 1 .. 5
       /\ Continued(codec.data)
       /\ codec.pc = "read" =>
             /\ codec.result.error = ""
             /\ Norm(codec.result.value) = codec.x

\* write_varlong(x) comes to an end within 10 bytes, which are the 64-bit
\* two's complement of x.
VarlongRoundTrip ==
    codec.pc # "idle" /\ codec.kind = "varlong" =>
       /\ Len(codec.data) <= 10
       /\ codec.pc = "written" =>
             /\ Len(codec.data) \in 1 .. 10
             /\ Continued(codec.data)
             /\ Leb128(codec.data) = Unsigned64(codec.x)

\* C27: for every signed 32-bit x, write_varint(x) gives 1 to 5 bytes from
\* which read_varint gives x back; for every signed 64-bit x, write_varlong(x)
\* ends with 1 to 10 bytes that are x in two's complement.
C27_VarRoundTrip == VarintRoundTrip /\ VarlongRoundTrip


\* While the gate of world 1 is closed and its entity update thread is not
\* within a step, the thread starts none, and as long as step_entity_tick
\* is not running either no entity moves.
NoStepWhilePaused ==
    [][(~entity_update_pause_event[1] /\ tpc[1] = "wait") =>
          /\ tpc'[1] = "wait"
          /\ (tpc[TickStepper(1)] = "none" /\ tpc'[TickStepper(1)] = "none") =>
                \A id \in DOMAIN item_entities[1] \cap DOMAIN item_entities'[1] :
                   Motion(item_entities'[1][id]) = Motion(item_entities[1][id])]_vars

\* step_entity_tick can be called with the gate open and with the gate
\* closed; the call takes the entities of the world, each once, has one turn
\* of the update loop on each in that order, and returns after the last.
StepIsOnePass ==
    /\ [](num_worlds >= 1 /\ tpc[TickStepper(1)] = "none" /\ tpc[1] = "wait"
            /\ (~entity_update_pause_event[1] \/ AllResting(1))
          => ENABLED StepEntityTick(1))
    /\ [][StepEntityTick(1) =>
            LET t == TickStepper(1)
            IN  /\ tpc[t] = "none" =>
                      /\ tlocal'[t].todo = KeysAscending(DOMAIN item_entities[1])
                      /\ tpc'[t] = "entity"
                /\ (tpc[t] = "entity" /\ tpc'[t] = "check") =>
                      /\ tlocal'[t].todo = tlocal[t].todo
                      /\ tlocal[t].todo # << >>
                /\ tpc[t] = "check" =>
                      /\ tlocal'[t].todo = Tail(tlocal[t].todo)
                      /\ tpc'[t] = "entity"
                /\ tpc'[t] = "none" => tlocal[t].todo = << >>]_vars

\* Once the gate is open again the entity update thread takes its next step,
\* unless the gate is closed before it does.
StepsAfterResume ==
    (entity_update_pause_event[1] /\ tpc[1] = "wait")
       ~> (tpc[1] = "entity" \/ ~entity_update_pause_event[1])

Pushed == apply_gravity_drag(item_entities[1][Head(tlocal[1].todo)],
                             Get(entity_collision_cache[1], Head(tlocal[1].todo)))

\* Moving by v from coordinate c of position p = <<x, y, z>> (axis 1 or 3)
\* crosses into a block that is solid at the level of the feet or the head.
CrossesIntoSolid(bd, p, axis, v) ==
    LET to == [p EXCEPT ![axis] = @ + v]
    IN  /\ v # 0
        /\ Floor(to[axis]) # Floor(p[axis])
        /\ \E up \in {0, 1} :
              is_block_solid(bd, << Floor(to[1]), Floor(p[2]) + up, Floor(to[3]) >>)

\* C29: when an entity moving in +x would cross into a block that is solid
\* at its feet or head level, the step sets velocity_x to 0 and x to
\* floor(x) + 1 - 0.01; moving in -x, x becomes floor(x) + 0.01; the same for z.
C29_HorizontalSnap ==
    [][(TickEntity(1) /\ Head(tlocal[1].todo) \in DOMAIN item_entities[1]) =>
          LET e == Pushed
              after == item_entities'[1][Head(tlocal[1].todo)]
              p == << e.x, e.y, e.z >>
          IN  /\ CrossesIntoSolid(block_data'[1], p, 1, e.velocity_x) =>
                    /\ after.velocity_x = 0
                    /\ after.x = IF e.velocity_x > 0
                                 THEN (Floor(e.x) + 1) * Unit - Epsilon
                                 ELSE Floor(e.x) * Unit + Epsilon
              /\ CrossesIntoSolid(block_data'[1], p, 3, e.velocity_z) =>
                    /\ after.velocity_z = 0
                    /\ after.z = IF e.velocity_z > 0
                                 THEN (Floor(e.z) + 1) * Unit - Epsilon
                                 ELSE Floor(e.z) * Unit + Epsilon]_vars


\* The blocks of the bounding box of the segment from A to B.
BoundingBox(A, B) ==
    { << x, y, z >> : x \in Floor(Min(A[1], B[1])) .. Floor(Max(A[1], B[1])),
                      y \in Floor(Min(A[2], B[2])) .. Floor(Max(A[2], B[2])),
                      z \in Floor(Min(A[3], B[3])) .. Floor(Max(A[3], B[3])) }

\* Some solid block of the bounding box passes the slab test.
SlabHit(bd, A, B) ==
    \E blk \in BoundingBox(A, B) :
        is_block_solid(bd, blk) /\ line_segment_intersects_aabb(A, B, blk)

\* |floor(B) - floor(A)| in the L1 norm.
BlockDistance(A, B) ==
    Abs(Floor(B[1]) - Floor(A[1])) + Abs(Floor(B[2]) - Floor(A[2]))
    + Abs(Floor(B[3]) - Floor(A[3]))

\* C30: check_line_intersects_solid_block(A, B) looks at no more than
\* |floor(B) - floor(A)|_L1 + 1 blocks and answers true exactly when some solid
\* block of the bounding box of the segment passes the slab test; for A = B
\* it answers whether the block that contains A is solid.
C30_LineMatchesSlabTest ==
    \A A \in LinePoints, B \in LinePoints :
       LET r == check_line_intersects_solid_block(block_data[1], A, B)
       IN  /\ Cardinality(r.blocks_checked) <= BlockDistance(A, B) + 1
           /\ r.hit <=> SlabHit(block_data[1], A, B)
           /\ A = B => (r.hit <=> is_block_solid(block_data[1],
                                      << Floor(A[1]), Floor(A[2]), Floor(A[3]) >>))

-----------------------------------------------------------------------------
(* Decode failures and the splitting of the stream across recv calls *)

\* The positions of the stream at which the parse loop has started, or will
\* start, to frame a packet.
FramingStarts ==
    { net.fails[i] : i \in 1 .. Len(net.fails) }
       \cup { net.packets[i].at : i \in 1 .. Len(net.packets) }
       \cup { net.recvd - Len(net.buffer) }

\* A recv whose parse loop met a decode failure.
DecodeFailure == Len(net'.fails) > Len(net.fails)

\* C31: a decode failure changes neither the connection state nor the
\* session thread's position in its read loop, framing is tried again at the
\* byte after the failure, and a connection on which decoding has failed
\* repeatedly is torn down: the session receives nothing more from it.
C31_DecodeFailureLocal ==
    /\ [][DecodeFailure =>
             /\ connection_state' = connection_state
             /\ spc'[1] = "read"]_vars
    /\ [](\A i \in 1 .. Len(net.fails) : net.fails[i] + 1 \in FramingStarts)
    /\ [][Len(net.fails) >= 2 => net'.recvd = net.recvd]_vars

\* What one recv of everything received so far leaves: the packets taken out
\* and the bytes kept in the buffer.
OneRecv ==
    LET whole == SubSeq(net.stream, 1, net.recvd)
        r == parse_loop(whole, 0, 0, << >>, << >>)
    IN  [packets |-> r.packets, buffer |-> Slice(whole, r.offset, Len(whole))]

\* C37: the packets taken out of the bytes received so far, and the bytes
\* still kept, are those a single recv of the same bytes gives, however the
\* bytes were split across recv calls.
C37_SplitIndependent ==
    /\ net.packets = OneRecv.packets
    /\ net.buffer = OneRecv.buffer

-----------------------------------------------------------------------------
(* The nibbles of a sky light array *)

\* The sky light the protocol gives a block at world_y in a column of the
\* given height.
SkyLight(height, world_y) ==
    IF world_y >= height THEN 15
    ELSE IF 15 - (height - world_y) > 0 THEN 15 - (height - world_y) ELSE 0

\* The sky light of the block with index i of the section in hand.
SkyLightOf(i) ==
    SkyLight(heightmap_entry(codec.use_terrain, codec.hm, i % 16, (i \div 16) % 16),
             -64 + codec.sections[codec.k] * 16 + i \div 256)

\* C32: a sky light array has 2048 bytes; the light of the block with even
\* index i is the low nibble of byte i/2 and the light of block i+1 the high
\* nibble, each 15 at or above the column height and max(0, 15 - depth) below.
C32_SkyLightNibbles ==
    (codec.pc = "light" /\ codec.k > 0) =>
       /\ Len(codec.light_array) = 2048
       /\ \A b \in 0 .. 2047 :
             /\ codec.light_array[b + 1] % 16 = SkyLightOf(2 * b)
             /\ codec.light_array[b + 1] \div 16 = SkyLightOf(2 * b + 1)

-----------------------------------------------------------------------------
(* The server's packets that open Configuration and Play *)

\* The server has written the named packet on the connection of session s.
HasSent(s, name) == \E i \in 1 .. Len(wire[s]) : wire[s][i].name = name

\* C33: a connection is in Play only after Finish Configuration has been sent
\* on it, and in Configuration or Play only after Login Success has been sent
\* on it: packet id 0x03 sent early skips neither Login Start nor the
\* registry exchange.
C33_StateFollowsServerPacket ==
    /\ connection_state[1] = PLAY => HasSent(1, "FinishConfiguration")
    /\ connection_state[1] \in {CONFIGURATION, PLAY} => HasSent(1, "LoginSuccess")

-----------------------------------------------------------------------------
(* The collision cache and the entity table *)

\* C34: every key of the entity collision cache of a world is the id of an
\* entity in its entity table, also while a pickup on the session thread
\* removes an entity the tick thread is updating.
C34_CacheKeysAreEntities ==
    \A w \in WorldIds :
       DOMAIN entity_collision_cache[w] \subseteq DOMAIN item_entities[w]

-----------------------------------------------------------------------------
(* The chunks of a player that moves faster than the worker loads *)

\* The session has handled everything it received and the worker has
\* nothing queued and nothing in hand, with no stop and an open socket.
QueueDrained(s) ==
    /\ connection_state[s] = PLAY
    /\ has_loader[s]
    /\ spc[s] = "read"
    /\ buffer[s] = << >>
    /\ chunk_queue[s] = << >>
    /\ wpc[s] = "idle"
    /\ ~stop_event[s]
    /\ sock[s] = "open"

\* The chunks within loading_radius of the player's chunk.
InRange(s) ==
    LET r == get_chunks_in_range(<< player[s].chunk_x, player[s].chunk_z >>)
    IN  { r[i] : i \in 1 .. Len(r) }

\* C35: once the chunk queue is drained, every chunk within loading_radius of
\* the player's chunk is in player.loaded_chunks, whatever the order of the
\* earlier crossings and the worker's steps.
C35_DrainedMeansLoaded ==
    QueueDrained(1) => InRange(1) \subseteq player[1].loaded_chunks

\* The chunks whose Chunk Data the worker starts to send in this step.
ChunksSentNow(s) ==
    { wire'[s][i].arg : i \in { j \in Len(wire[s]) + 1 .. Len(wire'[s]) :
                                  /\ wire'[s][j].name = "ChunkData"
                                  /\ wire'[s][j].part = "first" } }

\* C36: the worker sends a chunk only when the player does not hold it as
\* loaded, that is, never a second time without an unload in between.
C36_NoChunkSentTwice ==
    [][\A c \in ChunksSentNow(1) : c \notin player[1].loaded_chunks]_vars

-----------------------------------------------------------------------------
(* The keys of the block store *)

\* The chunks that have a key in the block store of world w.
ChunksStored(w) == { << key[1], key[2] >> : key \in DOMAIN block_data[w].sections }

C39_SectionKeysInRange ==
    \A w \in WorldIds :
       /\ \A key \in DOMAIN block_data[w].sections : key[3] \in 0 .. NumSections - 1
       /\ \A b \in updated_blocks[w] : b[2] \in -64 .. 319

-----------------------------------------------------------------------------
(* Chunk and block of a position *)

\* The chunk the block manager gives the block that contains (x, z).
ChunkOfPosition(x, z) == world_to_chunk_coords(Floor(x), Floor(z))

\* The player's chunk is the chunk of the block it stands in.
PlayerChunkIsFloor(s) ==
    (has_player[s] /\ player[s].x # NaN /\ player[s].z # NaN) =>
       << player[s].chunk_x, player[s].chunk_z >> = ChunkOfPosition(player[s].x, player[s].z)

\* The block the physics step takes for an entity is the block that contains
\* the entity.
EntityBlockIsFloor(w) ==
    \A id \in DOMAIN item_entities[w] :
       LET e == item_entities[w][id]
       IN  << PyInt(e.x), PyInt(e.y), PyInt(e.z) >> = << Floor(e.x), Floor(e.y), Floor(e.z) >>

\* C40: for every position, negative and fractional ones included, the
\* player's chunk is floor(x / 16), floor(z / 16), the chunk the block manager
\* gives the block containing the position, and the block the physics step
\* takes as an entity's current block is the floor of its position.
C40_ChunkIsFloor ==
    /\ PlayerChunkIsFloor(1)
    /\ \A w \in WorldIds : EntityBlockIsFloor(w)

====
